---- MODULE Spec2Model ----
(***************************************************************************)
(* Cross-chain HTLC coordinator (ETH <-> SUI).                             *)
(*                                                                         *)
(* The module holds these specifications over one set of variables:        *)
(*   SpecSafe      the SafeEscrow contracts of both ledgers and their      *)
(*                 registries under the calls of their users;              *)
(*   SpecRelay     the same escrows with the RelayerService that reacts    *)
(*                 to SafeWithdrawn events;                                *)
(*   SpecPair      CrossChainEscrowManager.createCrossChainSafe with the   *)
(*                 TimeoutManager validation;                              *)
(*   SpecResolver  the ResolverService swap monitor and its store;         *)
(*   SpecRelayTwo  SpecRelay with two relayer instances subscribed;        *)
(*   SpecRelayUnflagged  SpecRelay with a safe whose hash flag does not    *)
(*                 match its digest;                                       *)
(*   SpecStore     two clients reading and writing one swaps table;        *)
(*   SpecCrash     SpecResolver with a crash and restart of the process;   *)
(*   SpecRegister  registration of resolvers with both factories;          *)
(*   SpecEscrow    the SwapEscrow of one swap on each ledger;              *)
(*   SpecHtlc      the HTLCs of EthereumFusionEscrow and sui_escrow;       *)
(*   SpecRecord    deactivation of registry entries in SafeRecord;         *)
(*   SpecFee       the fee of ETHWSUISwap.withdraw;                        *)
(*   SpecRelayRestart  the relayer started and stopped repeatedly;         *)
(*   SpecRetry     the retry loop of the relayer's withdrawals;            *)
(*   SpecTimeouts  TimeoutManager.calculateOptimalTimeouts checked by      *)
(*                 validateTimeouts;                                       *)
(*   SpecFactory   the swaps SwapEscrowFactory keeps in activeSwaps.       *)
(* Every specification leaves the variables of the others untouched.       *)
(***************************************************************************)
EXTENDS Integers, Sequences, FiniteSets, Bags, TLC

VARIABLES
    now,          \* wall-clock time in milliseconds (Date.now(), Sui Clock)
    ethSafe,      \* SafeEscrow contracts on Ethereum, by address
    ethHashToAddresses, \* SafeRecord.hashToAddresses
    suiSafe,      \* SafeEscrow objects on Sui, by object id
    suiHashToSafe,\* SafeRegistry.hash_to_safe
    lastOp,       \* the latest withdraw/refund call of the current instant
    isRunning,    \* RelayerService.isRunning
    ethListeners, \* callbacks registered with EthereumSafeManager.onSafeWithdrawn
    suiListeners, \* callbacks registered with SuiSafeManager.onSafeWithdrawn
    inbox,        \* SafeWithdrawn events emitted and not yet delivered
    tasks,        \* bag of the relayer's event callbacks that have not returned
    observed,     \* safes that were open when an event revealing their secret arrived
    submitted,    \* withdrawFromSafe calls the relayer has made
    pair,         \* the createCrossChainSafe call in progress and its result
    running,      \* ResolverService.running
    listening,    \* the SwapEscrowCreated listener is registered
    activeSwaps,  \* keys of ResolverService.activeSwaps
    swapObj,      \* the SwapRequest object of each swap id
    db,           \* status column of the swaps table, by id
    monitoringIntervals, \* keys of ResolverService.monitoringIntervals
    leakedIntervals, \* swaps with a timer that the map no longer refers to
    ticks,        \* bag of resolver callbacks that have not returned
    refundsSubmitted, \* swaps for which the resolver has sent a refund
    swapEscrow,   \* user side of the SwapEscrow contract of each swap id
    writers,      \* clients of the Database between getSwap and updateSwap
    rowVersion,   \* UPDATEs that the clients of SpecStore applied to each row
    crashes,      \* times the resolver process has died and been restarted
    authorizedResolvers, \* SwapEscrowFactory.authorizedResolvers (Ethereum)
    resolverStakes,      \* SwapEscrowFactory.resolverStakes (Ethereum)
    resolvers,           \* SwapEscrowFactory.resolvers (Sui)
    resolver_stakes,     \* SwapEscrowFactory.resolver_stakes (Sui)
    escrows,             \* the SwapEscrow of one swap on each ledger
    htlcs,               \* the HTLCs of EthereumFusionEscrow and sui_escrow
    safeMetadata,        \* SafeRecord: the registry entry of one safe per ledger
    feeSwap,             \* ETHWSUISwap: its fee and one swap
    retry,               \* one call of a _withdrawFrom...WithRetry loop
    timeouts,            \* a TimeoutManager request and its answer
    factorySwaps         \* SwapEscrowFactory: swaps, activeSwaps, swapIndex

chainVars == <<ethSafe, ethHashToAddresses, suiSafe, suiHashToSafe, lastOp>>
relayerVars ==
    <<isRunning, ethListeners, suiListeners, inbox, tasks, observed, submitted>>
resolverVars ==
    <<running, listening, activeSwaps, swapObj, db, monitoringIntervals,
      leakedIntervals, ticks, refundsSubmitted, swapEscrow>>
\* what the escrows and the relayer never touch
\* the swap contracts of both ledgers
factoryVars == <<authorizedResolvers, resolverStakes, resolvers, resolver_stakes>>
\* the contracts that are modelled on their own
auxVars == <<retry, timeouts, factorySwaps>>
sideVars == <<htlcs, safeMetadata, feeSwap, auxVars>>
ledgerVars == <<factoryVars, escrows, sideVars>>
storeVars == <<writers, rowVersion, crashes, ledgerVars>>
appVars == <<pair, resolverVars, storeVars>>

----------------------------------------------------------------------------
(* Bounds of the model *)

\* first instant of the model, in milliseconds
Now0 == 10000000
\* length of one clock step, in milliseconds
TickMs == 5000
\* number of clock steps
MaxTicks == 4

MaxNow == Now0 + MaxTicks * TickMs

\* block.timestamp is in seconds, the Sui Clock and Date.now() in milliseconds
MsPerSec == 1000

----------------------------------------------------------------------------
(* Participants, secrets and digests *)

Users == {"alice", "bob"}
Relayer == "relayer"
Addr == Users \cup {Relayer}

Secrets == {"s1", "s2"}

\* A digest is the pair (algorithm, preimage): two algorithms never agree on
\* a digest and one algorithm is injective.
Sha256(s) == <<"sha256", s>>
Keccak256(s) == <<"keccak256", s>>
NoDigest == <<"none", "none">>
Digests == {Sha256(s) : s \in Secrets} \cup {Keccak256(s) : s \in Secrets}

\* HashUtility.js sha256
HashUtilitySha256(s) == Sha256(s)

\* hash_utility.move: both entry points hash with keccak256
calculate_hash(s) == Keccak256(s)
calculate_sha256_hash(s) == Keccak256(s)
verify_secret(s, expected) == calculate_hash(s) = expected
verify_secret_sha256(s, expected) == calculate_sha256_hash(s) = expected

Max(a, b) == IF a >= b THEN a ELSE b
Min(a, b) == IF a <= b THEN a ELSE b

\* ledger clocks
EthTime == now \div MsPerSec
SuiTime == now

----------------------------------------------------------------------------
(* SafeEscrow on Ethereum (SafeEscrow.sol) and its registry (SafeRecord.sol) *)

EthIds == {"E1", "E2"}
SuiIds == {"S1", "S2"}
NullId == "null"

\* lock durations handed to the Ethereum contract, which counts in seconds
EthLockDurations == {5}
\* lock durations handed to the Sui module, which counts in milliseconds
SuiLockDurations == {5000}
Amounts == {0, 1}

NoEthSafe ==
    [exists |-> FALSE, owner |-> "none", beneficiary |-> "none", amount |-> 0,
     secretHash |-> NoDigest, startTime |-> 0, lockDuration |-> 0,
     isWithdrawn |-> FALSE, isRefunded |-> FALSE, useSha256 |-> FALSE,
     revealedSecret |-> "", paidTo |-> "none"]

\* SafeEscrow constructor
EthNewSafe(owner, beneficiary, amount, hash, dur, sha) ==
    [exists |-> TRUE, owner |-> owner, beneficiary |-> beneficiary,
     amount |-> amount, secretHash |-> hash, startTime |-> EthTime,
     lockDuration |-> dur, isWithdrawn |-> FALSE, isRefunded |-> FALSE,
     useSha256 |-> sha, revealedSecret |-> "", paidTo |-> "none"]

EthDeadline(s) == s.startTime + s.lockDuration

\* the hash SafeEscrow.withdraw computes from the secret
EthComputedHash(s, secret) ==
    IF s.useSha256 THEN Sha256(secret) ELSE Keccak256(secret)

\* the require()s of SafeEscrow.withdraw
EthWithdrawAllowed(s, secret, t) ==
    /\ ~s.isWithdrawn
    /\ ~s.isRefunded
    /\ t <= EthDeadline(s)
    /\ EthComputedHash(s, secret) = s.secretHash

\* SafeEscrow.refund without its "Already withdrawn" require
EthRefundAllowed_IgnoresWithdrawn(s, caller, t) ==
    /\ caller = s.owner
    /\ ~s.isRefunded
    /\ t > EthDeadline(s)

\* the require()s of SafeEscrow.refund
EthRefundAllowed(s, caller, t) ==
    /\ caller = s.owner
    /\ ~s.isWithdrawn
    /\ ~s.isRefunded
    /\ t > EthDeadline(s)

\* the next unused contract address
EthFresh(e) ==
    /\ ~ethSafe[e].exists
    /\ \A f \in EthIds : (f = "E1" /\ e = "E2") => ethSafe[f].exists

\* SafeRecord._createSafeWithHash: deploy the escrow and register it
EthCreateSafeWithHash(e, owner, beneficiary, amount, hash, dur, sha) ==
    /\ EthFresh(e)
    /\ amount > 0
    /\ ethSafe' = [ethSafe EXCEPT
                     ![e] = EthNewSafe(owner, beneficiary, amount, hash, dur, sha)]
    /\ ethHashToAddresses' =
           [ethHashToAddresses EXCEPT ![hash] = Append(@, e)]

NoOp == [op |-> "none", chain |-> "none", id |-> NullId, caller |-> "none",
         secret |-> "", time |-> 0, avail |-> FALSE, ok |-> FALSE]

\* listeners subscribed to SafeWithdrawn on a chain
Listeners(chain) == IF chain = "ethereum" THEN ethListeners ELSE suiListeners

\* a SafeWithdrawn event reaches the subscriptions of its chain; without a
\* subscription nobody receives it
Emit(ev) == IF Listeners(ev.chain) > 0 THEN Append(inbox, ev) ELSE inbox

\* SafeRecord.getSafesByHash
getSafesByHash(hash) == ethHashToAddresses[hash]

\* SafeEscrow.withdraw called by `caller`: checks, state change, event
EthWithdrawCall(e, caller, secret) ==
    LET s == ethSafe[e]
        ok == EthWithdrawAllowed(s, secret, EthTime)
    IN  /\ lastOp' = [op |-> "withdraw", chain |-> "ethereum", id |-> e,
                      caller |-> caller, secret |-> secret, time |-> EthTime,
                      avail |-> ~s.isWithdrawn /\ ~s.isRefunded, ok |-> ok]
        /\ IF ok
             THEN /\ ethSafe' = [ethSafe EXCEPT
                        ![e].isWithdrawn = TRUE,
                        ![e].revealedSecret = secret,
                        ![e].paidTo = caller]
                  /\ inbox' = Emit([chain |-> "ethereum", id |-> e,
                                    secret |-> secret])
             ELSE UNCHANGED <<ethSafe, inbox>>

\* SafeEscrow.refund called by `caller`
EthRefundCall(e, caller) ==
    LET s == ethSafe[e]
        ok == EthRefundAllowed(s, caller, EthTime)
    IN  /\ lastOp' = [op |-> "refund", chain |-> "ethereum", id |-> e,
                      caller |-> caller, secret |-> "", time |-> EthTime,
                      avail |-> ~s.isWithdrawn /\ ~s.isRefunded, ok |-> ok]
        /\ IF ok
             THEN ethSafe' = [ethSafe EXCEPT
                        ![e].isRefunded = TRUE, ![e].paidTo = s.owner]
             ELSE UNCHANGED ethSafe

----------------------------------------------------------------------------
(* SafeEscrow on Sui (safe_escrow.move) and its registry (safe_record.move) *)

NoSuiSafe ==
    [exists |-> FALSE, owner |-> "none", beneficiary |-> "none", amount |-> 0,
     secret_hash |-> NoDigest, start_time |-> 0, lock_duration |-> 0,
     is_withdrawn |-> FALSE, is_refunded |-> FALSE, use_sha256 |-> FALSE,
     paidTo |-> "none"]

\* safe_escrow::create_safe_internal
SuiNewSafe(owner, beneficiary, amount, hash, dur, sha) ==
    [exists |-> TRUE, owner |-> owner, beneficiary |-> beneficiary,
     amount |-> amount, secret_hash |-> hash, start_time |-> SuiTime,
     lock_duration |-> dur, is_withdrawn |-> FALSE, is_refunded |-> FALSE,
     use_sha256 |-> sha, paidTo |-> "none"]

SuiDeadline(s) == s.start_time + s.lock_duration

\* the asserts of safe_escrow::withdraw (the function takes no Clock)
SuiWithdrawAllowed(s, secret) ==
    /\ ~s.is_withdrawn
    /\ ~s.is_refunded
    /\ IF s.use_sha256
         THEN verify_secret_sha256(secret, s.secret_hash)
         ELSE verify_secret(secret, s.secret_hash)

\* the asserts of safe_escrow::refund; capSafe is owner_cap.safe_id
SuiRefundAllowed(s, id, capSafe, t) ==
    /\ ~s.is_withdrawn
    /\ ~s.is_refunded
    /\ capSafe = id
    /\ t >= SuiDeadline(s)

SuiFresh(u) ==
    /\ ~suiSafe[u].exists
    /\ \A f \in SuiIds : (f = "S1" /\ u = "S2") => suiSafe[f].exists

\* safe_record::create_and_register_safe_with_hash; table::add aborts when the
\* key is present
SuiCreateAndRegister(u, owner, beneficiary, amount, hash, dur, sha) ==
    /\ SuiFresh(u)
    /\ amount > 0
    /\ suiHashToSafe[hash] = NullId
    /\ suiSafe' = [suiSafe EXCEPT
                     ![u] = SuiNewSafe(owner, beneficiary, amount, hash, dur, sha)]
    /\ suiHashToSafe' = [suiHashToSafe EXCEPT ![hash] = u]

\* safe_record::get_safe_by_hash
get_safe_by_hash(hash) == suiHashToSafe[hash]

\* safe_escrow::withdraw in a transaction signed by `caller`
SuiWithdrawCall(u, caller, secret) ==
    LET s == suiSafe[u]
        ok == SuiWithdrawAllowed(s, secret)
    IN  /\ lastOp' = [op |-> "withdraw", chain |-> "sui", id |-> u,
                      caller |-> caller, secret |-> secret, time |-> SuiTime,
                      avail |-> ~s.is_withdrawn /\ ~s.is_refunded, ok |-> ok]
        /\ IF ok
             THEN /\ suiSafe' = [suiSafe EXCEPT
                        ![u].is_withdrawn = TRUE, ![u].paidTo = caller]
                  /\ inbox' = Emit([chain |-> "sui", id |-> u,
                                    secret |-> secret])
             ELSE UNCHANGED <<suiSafe, inbox>>

\* safe_escrow::refund in a transaction that presents the cap of `capSafe`;
\* the holder of a cap is the owner of the safe it names
SuiRefundCall(u, capSafe) ==
    LET s == suiSafe[u]
        ok == SuiRefundAllowed(s, u, capSafe, SuiTime)
    IN  /\ lastOp' = [op |-> "refund", chain |-> "sui", id |-> u,
                      caller |-> capSafe, secret |-> "", time |-> SuiTime,
                      avail |-> ~s.is_withdrawn /\ ~s.is_refunded, ok |-> ok]
        /\ IF ok
             THEN suiSafe' = [suiSafe EXCEPT
                        ![u].is_refunded = TRUE, ![u].paidTo = s.owner]
             ELSE UNCHANGED suiSafe

----------------------------------------------------------------------------
(* RelayerService *)

\* RelayerService constructor
retryAttempts == 3
retryDelay == 5000

\* SuiSafeManager.getSafeByHash: the registry is not queried
getSafeByHash(hash) == NullId

\* CrossChainEscrowManager.findSafesByHash, as the list the callbacks walk
findSafesByHash(chain, hash) ==
    IF chain = "ethereum"
      THEN getSafesByHash(hash)
      ELSE IF getSafeByHash(hash) = NullId THEN <<>> ELSE <<getSafeByHash(hash)>>

\* the chain a callback withdraws on
Target(dir) == IF dir = "fromSui" THEN "ethereum" ELSE "sui"

\* safes of the other chain that, when the event is observed, carry the digest
\* of the revealed secret and are neither withdrawn, refunded nor expired
Observed(ev) ==
    IF ev.chain = "sui"
      THEN {<<"ethereum", e, ev.secret>> : e \in
               {f \in EthIds : /\ ethSafe[f].exists
                               /\ ethSafe[f].secretHash = Sha256(ev.secret)
                               /\ ~ethSafe[f].isWithdrawn
                               /\ ~ethSafe[f].isRefunded
                               /\ EthTime <= EthDeadline(ethSafe[f])}}
      ELSE {<<"sui", u, ev.secret>> : u \in
               {v \in SuiIds : /\ get_safe_by_hash(Sha256(ev.secret)) = v
                               /\ ~suiSafe[v].is_withdrawn
                               /\ ~suiSafe[v].is_refunded}}

NewTask(ev) ==
    [dir |-> IF ev.chain = "sui" THEN "fromSui" ELSE "fromEth",
     secret |-> ev.secret, pc |-> "find", todo |-> <<>>, attempt |-> 0,
     wakeAt |-> 0]

\* the pending callbacks with one invocation of t replaced by the invocations
\* in the bag `after`
Replace(t, after) == (tasks (-) SetToBag({t})) (+) after

\* the callback returns after the first safe of its list
NextTarget_ReturnsAfterFirst(t) == EmptyBag

\* the callback moves on to the next safe of its list, or returns
NextTarget(t) ==
    IF Len(t.todo) > 1
      THEN SetToBag({[t EXCEPT !.pc = "withdraw", !.todo = Tail(t.todo),
                               !.attempt = 1, !.wakeAt = 0]})
      ELSE EmptyBag

\* RelayerService.stop
Stop ==
    /\ isRunning
    /\ isRunning' = FALSE
    /\ UNCHANGED <<now, chainVars, ethListeners, suiListeners, inbox, tasks,
                   observed, submitted>>
    /\ UNCHANGED appVars

\* an event is handed to every callback subscribed on its chain; a callback
\* returns at once when the relayer is not running
Deliver ==
    /\ inbox # <<>>
    /\ LET ev == Head(inbox)
       IN  IF isRunning
             THEN /\ tasks' = tasks (+) (NewTask(ev) :> Listeners(ev.chain))
                  /\ observed' = observed \cup Observed(ev)
             ELSE UNCHANGED <<tasks, observed>>
    /\ inbox' = Tail(inbox)
    /\ UNCHANGED <<now, chainVars, isRunning, ethListeners, suiListeners,
                   submitted>>
    /\ UNCHANGED appVars

\* the callback computes sha256(secret) and looks the digest up
TaskFind(t) ==
    /\ t.pc = "find"
    /\ LET found == findSafesByHash(Target(t.dir), HashUtilitySha256(t.secret))
       IN  tasks' = Replace(t,
                      IF Len(found) > 0
                        THEN SetToBag({[t EXCEPT !.pc = "withdraw",
                                                 !.todo = found, !.attempt = 1]})
                        ELSE EmptyBag)
    /\ UNCHANGED <<now, chainVars, isRunning, ethListeners, suiListeners,
                   inbox, observed, submitted>>
    /\ UNCHANGED appVars

\* one pass of the loop of _withdrawFrom{Ethereum,Sui}SafeWithRetry
TaskWithdraw(t) ==
    /\ t.pc = "withdraw"
    /\ LET target == Head(t.todo)
       IN  /\ submitted' = submitted \cup {<<Target(t.dir), target, t.secret>>}
           /\ IF Target(t.dir) = "ethereum"
                THEN /\ EthWithdrawCall(target, Relayer, t.secret)
                     /\ UNCHANGED suiSafe
                ELSE /\ SuiWithdrawCall(target, Relayer, t.secret)
                     /\ UNCHANGED ethSafe
           /\ tasks' = Replace(t,
                 IF lastOp'.ok
                   THEN NextTarget(t)
                   ELSE IF t.attempt < retryAttempts
                          THEN SetToBag({[t EXCEPT
                                   !.pc = "delay",
                                   !.wakeAt = now + retryDelay * t.attempt]})
                          ELSE NextTarget(t))
    /\ UNCHANGED <<now, ethHashToAddresses, suiHashToSafe, isRunning,
                   ethListeners, suiListeners, observed>>
    /\ UNCHANGED appVars

\* the timer of _delay fires; the clock is then at least at the wake-up time
\* (capped at the end of the modelled time line)
TaskDelay(t) ==
    /\ t.pc = "delay"
    /\ now' = Max(now, Min(t.wakeAt, MaxNow))
    /\ lastOp' = IF now' = now THEN lastOp ELSE NoOp
    /\ tasks' = Replace(t, SetToBag({[t EXCEPT !.pc = "withdraw",
                                               !.attempt = t.attempt + 1,
                                               !.wakeAt = 0]}))
    /\ UNCHANGED <<ethSafe, ethHashToAddresses, suiSafe, suiHashToSafe,
                   isRunning, ethListeners, suiListeners, inbox, observed,
                   submitted>>
    /\ UNCHANGED appVars

RunFind == \E t \in BagToSet(tasks) : TaskFind(t)
RunWithdraw == \E t \in BagToSet(tasks) : TaskWithdraw(t)
RunDelay == \E t \in BagToSet(tasks) : TaskDelay(t)

RelayerStep == Deliver \/ RunFind \/ RunWithdraw \/ RunDelay

\* the relayer has nothing left to do
Quiescent == inbox = <<>> /\ tasks = EmptyBag

----------------------------------------------------------------------------
(* Calls made by the users of the two ledgers, and the passage of time *)

EthWithdraw(e, caller, secret) ==
    /\ ethSafe[e].exists
    /\ EthWithdrawCall(e, caller, secret)
    /\ UNCHANGED <<now, ethHashToAddresses, suiSafe, suiHashToSafe, isRunning,
                   ethListeners, suiListeners, tasks, observed, submitted>>
    /\ UNCHANGED appVars

EthRefund(e, caller) ==
    /\ ethSafe[e].exists
    /\ EthRefundCall(e, caller)
    /\ UNCHANGED <<now, ethHashToAddresses, suiSafe, suiHashToSafe, relayerVars>>
    /\ UNCHANGED appVars

SuiWithdraw(u, caller, secret) ==
    /\ suiSafe[u].exists
    /\ SuiWithdrawCall(u, caller, secret)
    /\ UNCHANGED <<now, ethSafe, ethHashToAddresses, suiHashToSafe, isRunning,
                   ethListeners, suiListeners, tasks, observed, submitted>>
    /\ UNCHANGED appVars

\* a refund presents the owner cap of an existing safe
SuiRefund(u, capSafe) ==
    /\ suiSafe[u].exists
    /\ suiSafe[capSafe].exists
    /\ SuiRefundCall(u, capSafe)
    /\ UNCHANGED <<now, ethSafe, ethHashToAddresses, suiHashToSafe, relayerVars>>
    /\ UNCHANGED appVars

Tick ==
    /\ now + TickMs <= MaxNow
    /\ now' = now + TickMs
    /\ lastOp' = NoOp
    /\ UNCHANGED <<ethSafe, ethHashToAddresses, suiSafe, suiHashToSafe,
                   relayerVars>>
    /\ UNCHANGED appVars

----------------------------------------------------------------------------
(* The safes that exist when the coordinator starts *)

\* the secret the parties of a swap lock their safes under
CreateSecrets == {"s1"}
Absent == "absent"
EthPaths == {"sha256", "keccak256"}
SuiPaths == {"manager_sha256", "module_sha256", "module_keccak256"}

Other(user) == IF user = "alice" THEN "bob" ELSE "alice"

\* SafeRecord.createSafeSha256 / SafeRecord.createSafe called by `owner`, and
\* SafeRecord.createSafeWithHash called with the SHA-256 digest and
\* _useSha256 = false
EthSafeVia(path, owner, secret, dur) ==
    CASE path = "sha256" ->
           EthNewSafe(owner, Other(owner), 1, Sha256(secret), dur, TRUE)
      [] path = "keccak256" ->
           EthNewSafe(owner, Other(owner), 1, Keccak256(secret), dur, FALSE)
      [] path = "with_hash_unflagged" ->
           EthNewSafe(owner, Other(owner), 1, Sha256(secret), dur, FALSE)
      [] OTHER -> NoEthSafe

\* SuiSafeManager.createSafeSha256 with the digest computed by HashUtility.js,
\* safe_record::create_and_register_safe_sha256 and
\* safe_record::create_and_register_safe with the digest computed on chain
SuiSafeVia(path, owner, secret, dur) ==
    CASE path = "manager_sha256" ->
           SuiNewSafe(owner, Other(owner), 1, HashUtilitySha256(secret), dur, TRUE)
      [] path = "module_sha256" ->
           SuiNewSafe(owner, Other(owner), 1, calculate_sha256_hash(secret), dur, TRUE)
      [] path = "module_keccak256" ->
           SuiNewSafe(owner, Other(owner), 1, calculate_hash(secret), dur, FALSE)
      [] OTHER -> NoSuiSafe

\* hashToAddresses after the safes of `safes` were registered in address order
EthRegistryOf(safes) ==
    [h \in Digests |->
        LET Has(e) == safes[e].exists /\ safes[e].secretHash = h
        IN  SelectSeq(<<"E1", "E2">>, Has)]

\* hash_to_safe after the safes of `safes` were registered
SuiRegistryOf(safes) ==
    [h \in Digests |->
        IF \E u \in SuiIds : safes[u].exists /\ safes[u].secret_hash = h
          THEN CHOOSE u \in SuiIds : safes[u].exists /\ safes[u].secret_hash = h
          ELSE NullId]

\* the safes were created at the first instant, the second after the first;
\* the Sui registry holds one safe per digest
InitChain(ethOwners, ethFirst, ethSecond, suiOwners, suiFirst, suiSecond) ==
    /\ now = Now0
    /\ \E o \in ethOwners, p1 \in ethFirst, p2 \in ethSecond,
          s \in CreateSecrets, d \in EthLockDurations :
          ethSafe = [e \in EthIds |->
                       IF e = "E1" THEN EthSafeVia(p1, o, s, d)
                                   ELSE EthSafeVia(p2, o, s, d)]
    /\ ethHashToAddresses = EthRegistryOf(ethSafe)
    /\ \E o \in suiOwners, p1 \in suiFirst, p2 \in suiSecond,
          s \in CreateSecrets, d \in SuiLockDurations :
          /\ suiSafe = [u \in SuiIds |->
                          IF u = "S1" THEN SuiSafeVia(p1, o, s, d)
                                      ELSE SuiSafeVia(p2, o, s, d)]
          /\ suiSafe["S2"].exists =>
                 suiSafe["S2"].secret_hash # suiSafe["S1"].secret_hash
    /\ suiHashToSafe = SuiRegistryOf(suiSafe)
    /\ lastOp = NoOp

\* RelayerService constructor
InitRelayer ==
    /\ isRunning = FALSE
    /\ ethListeners = 0
    /\ suiListeners = 0
    /\ inbox = <<>>
    /\ tasks = EmptyBag
    /\ observed = {}
    /\ submitted = {}

----------------------------------------------------------------------------
(* The coordinator before any pair is requested, and the resolver service   *)
(* after its constructor                                                    *)

SwapIds == {"w1", "w2"}

NoPair ==
    [phase |-> "idle", network |-> "none", sourceChain |-> "none",
     destChain |-> "none", sourceLockDuration |-> 0, destLockDuration |-> 0,
     sourceSafe |-> NullId, destSafe |-> NullId]

NoSwap ==
    [status |-> "none", userTimelock |-> 0, resolverTimelock |-> 0,
     destinationChain |-> "none"]

NoSwapEscrow ==
    [exists |-> FALSE, userTimelock |-> 0, resolverTimelock |-> 0,
     locked |-> FALSE, refunded |-> FALSE]

InitPairIdle == pair = NoPair

\* the two clients of the Database that SpecStore follows
Writers == {"c1", "c2"}

NoWrite == [pc |-> "idle", id |-> "none", seen |-> 0, status |-> "none"]

\* no client is between a read and a write
\* accounts that may register as resolver: this service and another one
Stakers == {"resolver", "other"}

\* the factories of both ledgers after deployment: nobody is registered
NoSide == [locked |-> FALSE, claimed |-> FALSE, refunded |-> FALSE]

NoDualEscrow ==
    [exists |-> FALSE, user_timelock |-> 0, resolver_timelock |-> 0,
     created_at |-> 0, userSide |-> NoSide, resolverSide |-> NoSide,
     revealed |-> FALSE, isDestroyed |-> FALSE]

HtlcIds == {"h1"}
NoHTLC ==
    [exists |-> FALSE, sender |-> "nobody", beneficiary |-> "nobody",
     hashLock |-> <<"none", "none">>, timelock |-> 0, claimed |-> FALSE,
     refunded |-> FALSE, released |-> <<>>]
NoSafeMetadata ==
    [exists |-> FALSE, owner |-> "nobody", isActive |-> FALSE,
     deactivatedBy |-> "nobody"]
\* ETHWSUISwap after its constructor: swapFee = 30
NewFeeSwap ==
    [swapFee |-> 30, amount |-> 0, exists |-> FALSE, withdrawn |-> FALSE,
     netAmount |-> 0, fee |-> 0, feeBps |-> 0]

NoRetry ==
    [retryAttempts |-> 0, chain |-> "none", attempt |-> 0, pc |-> "idle",
     submissions |-> 0, waits |-> <<>>]
NoTimeouts ==
    [network |-> "none", pc |-> "idle", estimatedExecutionTime |-> 0,
     sourceTimeout |-> 0, destTimeout |-> 0]
\* swap ids handed to SwapEscrowFactory
FactorySwapIds == {"a", "b", "c"}
\* SwapEscrowFactory after its constructor; status CREATED is the zero value
NoFactorySwaps ==
    [swapEscrows |-> [id \in FactorySwapIds |-> FALSE],
     status |-> [id \in FactorySwapIds |-> "CREATED"],
     activeSwaps |-> <<>>,
     swapIndex |-> [id \in FactorySwapIds |-> 0],
     isDestroyed |-> [id \in FactorySwapIds |-> FALSE],
     pastCleanupDelay |-> [id \in FactorySwapIds |-> FALSE],
     lastCall |-> "none"]

InitAuxIdle ==
    /\ retry = NoRetry
    /\ timeouts = NoTimeouts
    /\ factorySwaps = NoFactorySwaps

InitSideIdle ==
    /\ InitAuxIdle
    /\ htlcs = [c \in {"ethereum", "sui"} |-> [h \in HtlcIds |-> NoHTLC]]
    /\ safeMetadata = [c \in {"ethereum", "sui"} |-> NoSafeMetadata]
    /\ feeSwap = NewFeeSwap

InitLedgerIdle ==
    /\ authorizedResolvers = {}
    /\ resolverStakes = [a \in Stakers |-> 0]
    /\ resolvers = <<>>
    /\ resolver_stakes = <<>>
    /\ escrows = [c \in {"ethereum", "sui"} |-> NoDualEscrow]
    /\ InitSideIdle

InitStoreIdle ==
    /\ writers = [w \in Writers |-> NoWrite]
    /\ rowVersion = [id \in SwapIds |-> 0]
    /\ crashes = 0
    /\ InitLedgerIdle

\* ResolverService constructor; the swaps table is empty
InitResolverIdle ==
    /\ running = FALSE
    /\ listening = FALSE
    /\ activeSwaps = {}
    /\ swapObj = [id \in SwapIds |-> NoSwap]
    /\ db = [id \in SwapIds |-> "absent"]
    /\ monitoringIntervals = {}
    /\ leakedIntervals = {}
    /\ ticks = EmptyBag
    /\ refundsSubmitted = {}
    /\ swapEscrow = [id \in SwapIds |-> NoSwapEscrow]

----------------------------------------------------------------------------
(* SpecSafe: the escrows of both ledgers and the calls of their users *)

vars == <<now, chainVars, relayerVars, pair, storeVars, resolverVars>>

InitSafe ==
    /\ InitChain({"bob"}, EthPaths, {"sha256", Absent}, {"alice"},
                 {"manager_sha256", "module_sha256"},
                 {"module_keccak256", Absent})
    /\ InitRelayer
    /\ InitPairIdle
    /\ InitStoreIdle
    /\ InitResolverIdle

UserEthWithdraw ==
    \E e \in EthIds, caller \in Users, secret \in Secrets :
        EthWithdraw(e, caller, secret)

UserEthRefund == \E e \in EthIds, caller \in Users : EthRefund(e, caller)

UserSuiWithdraw ==
    \E u \in SuiIds, caller \in Users, secret \in Secrets :
        SuiWithdraw(u, caller, secret)

UserSuiRefund == \E u \in SuiIds, capSafe \in SuiIds : SuiRefund(u, capSafe)

NextSafe ==
    \/ UserEthWithdraw
    \/ UserEthRefund
    \/ UserSuiWithdraw
    \/ UserSuiRefund
    \/ Tick

SpecSafe == InitSafe /\ [][NextSafe]_vars

----------------------------------------------------------------------------
(* Properties of the escrows *)

\* no escrow of either ledger is both withdrawn and refunded
FlagsExclusive ==
    /\ \A e \in EthIds : ~(ethSafe[e].isWithdrawn /\ ethSafe[e].isRefunded)
    /\ \A u \in SuiIds : ~(suiSafe[u].is_withdrawn /\ suiSafe[u].is_refunded)

\* a flag that is set stays set across a step
FlagsMonotone ==
    /\ \A e \in EthIds :
          /\ ethSafe[e].isWithdrawn => ethSafe'[e].isWithdrawn
          /\ ethSafe[e].isRefunded => ethSafe'[e].isRefunded
    /\ \A u \in SuiIds :
          /\ suiSafe[u].is_withdrawn => suiSafe'[u].is_withdrawn
          /\ suiSafe[u].is_refunded => suiSafe'[u].is_refunded

\* C1: on both ledgers an escrow is never withdrawn and refunded at once, and
\* a withdrawn or refunded flag, once set, is never cleared by any later
\* withdraw or refund call.
C1_FlagsExclusiveAndMonotone == []FlagsExclusive /\ [][FlagsMonotone]_vars

\* C1 witness: an Ethereum safe was withdrawn, a Sui safe was refunded, and
\* the owner of the withdrawn safe has since called refund after the deadline
\* and was rejected.
C1_Witness ==
    /\ \E u \in SuiIds : suiSafe[u].is_refunded
    /\ lastOp.op = "refund"
    /\ lastOp.chain = "ethereum"
    /\ ethSafe[lastOp.id].isWithdrawn
    /\ lastOp.caller = ethSafe[lastOp.id].owner
    /\ lastOp.time > EthDeadline(ethSafe[lastOp.id])
    /\ ~lastOp.ok

\* the deadline of the safe the last call addressed, in its ledger's unit
LastDeadline ==
    IF lastOp.chain = "ethereum"
      THEN EthDeadline(ethSafe[lastOp.id])
      ELSE SuiDeadline(suiSafe[lastOp.id])

\* the last refund came from the owner (Sui: presented the safe's own cap)
LastByOwner ==
    IF lastOp.chain = "ethereum"
      THEN lastOp.caller = ethSafe[lastOp.id].owner
      ELSE lastOp.caller = lastOp.id

\* C2: a refund called on an available escrow succeeds exactly when the
\* caller is the owner (Sui: presents that escrow's owner cap) and the ledger
\* time is strictly greater than the deadline start + lock duration.
C2_RefundIffOwnerAfterDeadline ==
    (lastOp.op = "refund" /\ lastOp.avail) =>
        (lastOp.ok <=> (LastByOwner /\ lastOp.time > LastDeadline))

\* C3: a withdraw called at a ledger time greater than the deadline is
\* rejected, whatever the secret.
C3_NoWithdrawAfterDeadline ==
    (lastOp.op = "withdraw" /\ lastOp.time > LastDeadline) => ~lastOp.ok


\* C2 witness of the divergence: a Sui refund with the safe's own cap at the
\* very instant of the deadline went through.
C2_SuiRefundAtDeadline ==
    /\ lastOp.op = "refund"
    /\ lastOp.chain = "sui"
    /\ lastOp.avail
    /\ lastOp.caller = lastOp.id
    /\ lastOp.time = SuiDeadline(suiSafe[lastOp.id])
    /\ lastOp.ok
    /\ suiSafe[lastOp.id].is_refunded

\* C3 witness of the divergence: a Sui withdraw after the deadline went through.
C3_SuiWithdrawAfterDeadline ==
    /\ lastOp.op = "withdraw"
    /\ lastOp.chain = "sui"
    /\ lastOp.time > SuiDeadline(suiSafe[lastOp.id])
    /\ lastOp.ok
    /\ suiSafe[lastOp.id].is_withdrawn

----------------------------------------------------------------------------
(* SpecRelay: a swap's safes, the two parties and the running relayer.     *)
(* alice owns the Sui safes and is the beneficiary on Ethereum, bob the    *)
(* converse; both know the secret.                                         *)

\* RelayerService after its constructor and one start(): running, with one
\* callback subscribed on each chain
InitStarted ==
    /\ isRunning = TRUE
    /\ ethListeners = 1
    /\ suiListeners = 1
    /\ inbox = <<>>
    /\ tasks = EmptyBag
    /\ observed = {}
    /\ submitted = {}

InitRelay ==
    /\ InitChain({"bob"}, {"sha256"}, {"sha256", Absent}, {"alice"},
                 {"module_sha256"}, {"manager_sha256", Absent})
    /\ InitStarted
    /\ InitPairIdle
    /\ InitStoreIdle
    /\ InitResolverIdle

\* the parties make the calls their ledger accepts; a rejected call changes
\* nothing on either ledger
PartyEthWithdraw ==
    \E e \in EthIds, secret \in CreateSecrets :
        /\ EthWithdrawAllowed(ethSafe[e], secret, EthTime)
        /\ EthWithdraw(e, "alice", secret)

PartyEthRefund ==
    \E e \in EthIds :
        /\ EthRefundAllowed(ethSafe[e], "bob", EthTime)
        /\ EthRefund(e, "bob")

PartySuiWithdraw ==
    \E u \in SuiIds, secret \in CreateSecrets :
        /\ SuiWithdrawAllowed(suiSafe[u], secret)
        /\ SuiWithdraw(u, "bob", secret)

PartySuiRefund ==
    \E u \in SuiIds :
        /\ SuiRefundAllowed(suiSafe[u], u, u, SuiTime)
        /\ SuiRefund(u, u)

NextRelay ==
    \/ PartyEthWithdraw
    \/ PartyEthRefund
    \/ PartySuiWithdraw
    \/ PartySuiRefund
    \/ Tick
    \/ Stop
    \/ Deliver
    \/ RunFind
    \/ RunWithdraw
    \/ RunDelay

SpecRelay == InitRelay /\ [][NextRelay]_vars

\* the event loop runs every callback that is ready and fires every timer
SpecRelayFair == SpecRelay /\ WF_vars(RelayerStep)

----------------------------------------------------------------------------
(* Reveal propagation *)

\* the relayer's latest call was a withdraw on an Ethereum safe it had
\* observed open, and it executed while that safe was still open and unexpired
RelayerCallOnOpenEthSafe ==
    /\ lastOp.op = "withdraw"
    /\ lastOp.chain = "ethereum"
    /\ lastOp.caller = Relayer
    /\ <<"ethereum", lastOp.id, lastOp.secret>> \in observed
    /\ lastOp.avail
    /\ lastOp.time <= EthDeadline(ethSafe[lastOp.id])

\* such a call withdraws the safe with the revealed secret
OpenEthSafeIsWithdrawn ==
    RelayerCallOnOpenEthSafe =>
        /\ lastOp.ok
        /\ ethSafe[lastOp.id].isWithdrawn
        /\ ethSafe[lastOp.id].revealedSecret = lastOp.secret
        /\ \E u \in SuiIds : suiSafe[u].is_withdrawn

C5_ObservedSuiSafeGetsSubmission ==
    Quiescent => \A x \in observed : x[1] = "sui" => x \in submitted

\* C5 witness of the divergence: the relayer is done with the Ethereum event
\* and the registered, still unwithdrawn Sui safe never got a submission.
C5_SuiSafeNeverSubmitted ==
    /\ Quiescent
    /\ \E x \in observed :
          /\ x[1] = "sui"
          /\ x \notin submitted
          /\ get_safe_by_hash(Sha256(x[3])) = x[2]
          /\ ~suiSafe[x[2]].is_withdrawn

----------------------------------------------------------------------------
(* SpecPair: CrossChainEscrowManager.createCrossChainSafe *)

\* TimeoutManager._getTimeoutConfig, in milliseconds
Config(network) ==
    CASE network = "mainnet" ->
           [sourceTimeout |-> 3 * 60 * 60 * 1000, destTimeout |-> 30 * 60 * 1000,
            safetyMargin |-> 30 * 60 * 1000, minTimeout |-> 10 * 60 * 1000]
      [] network = "devnet" ->
           [sourceTimeout |-> 10 * 60 * 1000, destTimeout |-> 2 * 60 * 1000,
            safetyMargin |-> 2 * 60 * 1000, minTimeout |-> 1 * 60 * 1000]
      [] OTHER ->
           [sourceTimeout |-> 30 * 60 * 1000, destTimeout |-> 5 * 60 * 1000,
            safetyMargin |-> 5 * 60 * 1000, minTimeout |-> 2 * 60 * 1000]

\* the profiles whose deadlines, in milliseconds, stay within TLC's integers
Networks == {"devnet", "testnet"}
Chains == {"ethereum", "sui"}
Coordinator == "coordinator"

\* TimeoutManager.validateTimeouts: TRUE when it returns, FALSE when it throws
validateTimeouts(cfg, sourceTimeout, destTimeout) ==
    /\ ~(sourceTimeout < cfg.minTimeout)
    /\ ~(destTimeout < cfg.minTimeout)
    /\ ~(sourceTimeout <= destTimeout + cfg.safetyMargin)

\* lock durations a caller may pass: the defaults and the edges of the checks
DestChoices(cfg) == {cfg.minTimeout - 1, cfg.minTimeout, cfg.destTimeout}
SourceChoices(cfg, d) ==
    {cfg.minTimeout - 1, d + cfg.safetyMargin, d + cfg.safetyMargin + 1,
     cfg.sourceTimeout}

\* {Ethereum,Sui}SafeManager.createSafeSha256 on `chain`; the lock duration is
\* handed to the contract as it is
CreateSafeSha256(chain, beneficiary, hash, lockDuration) ==
    IF chain = "ethereum"
      THEN /\ \E e \in EthIds :
                EthCreateSafeWithHash(e, Coordinator, beneficiary, 1, hash,
                                      lockDuration, TRUE)
           /\ UNCHANGED <<suiSafe, suiHashToSafe>>
      ELSE /\ \E u \in SuiIds :
                SuiCreateAndRegister(u, Coordinator, beneficiary, 1, hash,
                                     lockDuration, TRUE)
           /\ UNCHANGED <<ethSafe, ethHashToAddresses>>

\* the create transaction on `chain` goes through
CreateSafeSucceeds(chain, hash) ==
    chain = "sui" => suiHashToSafe[hash] = NullId

\* the safe the pending create on `chain` will produce
NextSafeId(chain) ==
    IF chain = "ethereum"
      THEN CHOOSE e \in EthIds : EthFresh(e)
      ELSE CHOOSE u \in SuiIds : SuiFresh(u)

\* createCrossChainSafe up to the creation of the source safe
PairCreateSource ==
    /\ pair.phase = "called"
    /\ IF validateTimeouts(Config(pair.network), pair.sourceLockDuration,
                           pair.destLockDuration)
         THEN /\ CreateSafeSha256(pair.sourceChain, "bob",
                                  HashUtilitySha256("s1"),
                                  pair.sourceLockDuration)
              /\ pair' = [pair EXCEPT !.phase = "sourceCreated",
                                      !.sourceSafe = NextSafeId(pair.sourceChain)]
         ELSE /\ pair' = [pair EXCEPT !.phase = "rejected"]
              /\ UNCHANGED <<ethSafe, ethHashToAddresses, suiSafe, suiHashToSafe>>
    /\ UNCHANGED <<now, lastOp, relayerVars, resolverVars, storeVars>>

\* createCrossChainSafe from the creation of the destination safe on
PairCreateDest ==
    /\ pair.phase = "sourceCreated"
    /\ IF CreateSafeSucceeds(pair.destChain, HashUtilitySha256("s1"))
         THEN /\ CreateSafeSha256(pair.destChain, "alice",
                                  HashUtilitySha256("s1"), pair.destLockDuration)
              /\ pair' = [pair EXCEPT !.phase = "created",
                                      !.destSafe = NextSafeId(pair.destChain)]
         ELSE /\ pair' = [pair EXCEPT !.phase = "failed"]
              /\ UNCHANGED <<ethSafe, ethHashToAddresses, suiSafe, suiHashToSafe>>
    /\ UNCHANGED <<now, lastOp, relayerVars, resolverVars, storeVars>>

InitPair ==
    /\ InitChain({"bob"}, {Absent}, {Absent}, {"alice"}, {Absent}, {Absent})
    /\ InitRelayer
    /\ InitResolverIdle
    /\ InitStoreIdle
    /\ \E n \in Networks, sc \in Chains, dc \in Chains :
         \E d \in DestChoices(Config(n)) :
           \E s \in SourceChoices(Config(n), d) :
             pair = [phase |-> "called", network |-> n, sourceChain |-> sc,
                     destChain |-> dc, sourceLockDuration |-> s,
                     destLockDuration |-> d, sourceSafe |-> NullId,
                     destSafe |-> NullId]

\* the beneficiary of a safe of the pair calls withdraw with the pair's secret
PairEthWithdraw ==
    /\ pair.phase = "created"
    /\ \E e \in EthIds : EthWithdraw(e, ethSafe[e].beneficiary, "s1")

PairSuiWithdraw ==
    /\ pair.phase = "created"
    /\ \E u \in SuiIds : SuiWithdraw(u, suiSafe[u].beneficiary, "s1")

NextPair ==
    \/ PairCreateSource
    \/ PairCreateDest
    \/ PairEthWithdraw
    \/ PairSuiWithdraw
    \/ Tick

SpecPair == InitPair /\ [][NextPair]_vars

\* the absolute deadline of a safe on its ledger, in milliseconds
DeadlineMs(chain, id) ==
    IF chain = "ethereum"
      THEN EthDeadline(ethSafe[id]) * MsPerSec
      ELSE SuiDeadline(suiSafe[id])

SourceDeadlineMs == DeadlineMs(pair.sourceChain, pair.sourceSafe)
DestDeadlineMs == DeadlineMs(pair.destChain, pair.destSafe)

\* C10: every pair createCrossChainSafe has created keeps its two absolute
\* on-chain deadlines at least the profile's safety margin apart, and the later
\* deadline is the source side's.
C10_DeadlinesKeepMargin ==
    pair.phase = "created" =>
        /\ SourceDeadlineMs > DestDeadlineMs
        /\ SourceDeadlineMs - DestDeadlineMs >= Config(pair.network).safetyMargin

\* C10 witness of the divergence: a pair was created from durations that
\* validateTimeouts accepted, and the destination safe outlives the source safe.
C10_DestOutlivesSource ==
    /\ pair.phase = "created"
    /\ pair.sourceChain = "sui"
    /\ pair.destChain = "ethereum"
    /\ DestDeadlineMs > SourceDeadlineMs

----------------------------------------------------------------------------
(* SpecResolver: ResolverService, its swaps table and the user side of the  *)
(* SwapEscrow contracts it watches                                          *)

\* types/index.ts SwapStatus
SwapStatus ==
    {"pending", "user_locked", "resolver_locked", "both_locked",
     "user_claimed", "resolver_claimed", "completed", "failed", "refunded",
     "expired"}
\* the statuses getActiveSwaps leaves out and stopSwapMonitoring removes
Terminal == {"completed", "failed", "expired"}
Locked == {"user_locked", "resolver_locked", "both_locked"}

\* callbacks of the resolver that may be awaiting at one time
MaxInflight == 2
\* seconds from the first instant to the user timelock of swap w1 and of w2
NearTimelock == 5
FarTimelock == 3600

\* SwapEscrow.sol MIN_TIMELOCK_BUFFER (30 minutes), in seconds
MIN_TIMELOCK_BUFFER_SOL == 30 * 60
\* sui_swap_escrow.move, in milliseconds
MIN_TIMELOCK_BUFFER == 1800000
MAX_SWAP_DURATION == 86400000

UserTimelockOf(id) ==
    (Now0 \div MsPerSec) + (IF id = "w1" THEN NearTimelock ELSE FarTimelock)

\* an escrow the factory deployed at least MIN_TIMELOCK_BUFFER ago; its
\* constructor required resolverTimelock + MIN_TIMELOCK_BUFFER <= userTimelock
DeployedSwapEscrow(id, locked) ==
    [exists |-> TRUE, userTimelock |-> UserTimelockOf(id),
     resolverTimelock |-> UserTimelockOf(id) - MIN_TIMELOCK_BUFFER_SOL,
     locked |-> locked, refunded |-> FALSE]

\* SwapEscrow.lockUserSide by the user
LockUserSide(id) ==
    /\ swapEscrow[id].exists
    /\ ~swapEscrow[id].locked
    /\ EthTime <= swapEscrow[id].userTimelock
    /\ swapEscrow' = [swapEscrow EXCEPT ![id].locked = TRUE]
    /\ UNCHANGED <<now, chainVars, relayerVars, pair, storeVars, running, listening,
                   activeSwaps, swapObj, db, monitoringIntervals,
                   leakedIntervals, ticks, refundsSubmitted>>

\* SwapEscrow.refundFunds(0) by the user
RefundUserSide(id) ==
    /\ swapEscrow[id].exists
    /\ swapEscrow[id].locked
    /\ ~swapEscrow[id].refunded
    /\ EthTime > swapEscrow[id].userTimelock
    /\ swapEscrow' = [swapEscrow EXCEPT ![id].refunded = TRUE]
    /\ UNCHANGED <<now, chainVars, relayerVars, pair, storeVars, running, listening,
                   activeSwaps, swapObj, db, monitoringIntervals,
                   leakedIntervals, ticks, refundsSubmitted>>

\* sui_swap_escrow::create_swap_escrow: its assertions on the timelocks and on
\* the address passed as resolver
is_resolver_registered(resolver_address) == resolver_address = "resolver"

create_swap_escrow_ok(resolver_address, user_timelock, resolver_timelock, t) ==
    /\ user_timelock > t
    /\ resolver_timelock > t
    /\ user_timelock <= t + MAX_SWAP_DURATION
    /\ resolver_timelock + MIN_TIMELOCK_BUFFER <= user_timelock
    /\ is_resolver_registered(resolver_address)

\* Database.createSwap: INSERT into a table whose id is the PRIMARY KEY
DbInsertOk_Replaces(id) == TRUE

\* INSERT OR REPLACE once the stored swap is in a final status
DbInsertOk_ReplacesFinished(id) == db[id] \in {"absent"} \cup Terminal

DbInsertOk(id) == db[id] = "absent"

\* the placeholders of ResolverService
checkUserLocked(swap) == FALSE
checkUserClaimed(swap) == FALSE
checkResolverClaimed(swap) == FALSE

Inflight == BagCardinality(ticks)

NewTick(id, pc, write) == [id |-> id, pc |-> pc, write |-> write]

Without(t) == ticks (-) SetToBag({t})

\* updateSwapStatus up to its await of Database.updateSwap; `rest` are the
\* other callbacks in flight
updateSwapStatus(id, newStatus, rest) ==
    IF id \in activeSwaps
      THEN /\ swapObj' = [swapObj EXCEPT ![id].status = newStatus]
           /\ ticks' = rest (+) SetToBag({NewTick(id, "updateSwap", newStatus)})
      ELSE /\ swapObj' = swapObj
           /\ ticks' = rest

\* start(): monitoring of the loaded swaps, then the event listener
RsStart ==
    /\ ~running
    /\ running' = TRUE
    /\ monitoringIntervals' = monitoringIntervals \cup activeSwaps
    /\ leakedIntervals' =
           leakedIntervals \cup (activeSwaps \cap monitoringIntervals)
    /\ listening' = TRUE
    /\ UNCHANGED <<now, chainVars, relayerVars, pair, storeVars, activeSwaps, swapObj, db,
                   ticks, refundsSubmitted, swapEscrow>>

\* stop()
RsStop ==
    /\ running
    /\ running' = FALSE
    /\ monitoringIntervals' = {}
    /\ listening' = FALSE
    /\ UNCHANGED <<now, chainVars, relayerVars, pair, storeVars, activeSwaps, swapObj, db,
                   leakedIntervals, ticks, refundsSubmitted, swapEscrow>>

\* a SwapEscrowCreated event reaches handleEthereumSwapCreated, which returns
\* at once for the swap of another resolver and otherwise reads the escrow
SwapCreatedEvent(id, ours) ==
    /\ listening
    /\ swapEscrow[id].exists
    /\ Inflight < MaxInflight
    /\ ticks' = IF ours
                  THEN ticks (+) SetToBag({NewTick(id, "createSwap", "pending")})
                  ELSE ticks
    /\ UNCHANGED <<now, chainVars, relayerVars, pair, storeVars, running, listening,
                   activeSwaps, swapObj, db, monitoringIntervals,
                   leakedIntervals, refundsSubmitted, swapEscrow>>

\* handleEthereumSwapCreated from Database.createSwap on
TickCreateSwap(t) ==
    /\ t.pc = "createSwap"
    /\ IF DbInsertOk(t.id)
         THEN /\ db' = [db EXCEPT ![t.id] = "pending"]
              /\ swapObj' =
                   [swapObj EXCEPT ![t.id] =
                      [status |-> "pending",
                       userTimelock |-> swapEscrow[t.id].userTimelock,
                       resolverTimelock |-> swapEscrow[t.id].resolverTimelock,
                       destinationChain |-> "sui"]]
              /\ activeSwaps' = activeSwaps \cup {t.id}
              /\ monitoringIntervals' = monitoringIntervals \cup {t.id}
              /\ leakedIntervals' =
                   IF t.id \in monitoringIntervals
                     THEN leakedIntervals \cup {t.id}
                     ELSE leakedIntervals
         ELSE UNCHANGED <<db, swapObj, activeSwaps, monitoringIntervals,
                          leakedIntervals>>
    /\ ticks' = Without(t)
    /\ UNCHANGED <<now, chainVars, relayerVars, pair, storeVars, running, listening,
                   refundsSubmitted, swapEscrow>>

\* handlePendingSwap
handlePendingSwap(id) ==
    /\ IF checkUserLocked(swapObj[id])
         THEN updateSwapStatus(id, "user_locked", ticks)
         ELSE IF now > swapObj[id].userTimelock
                THEN updateSwapStatus(id, "expired", ticks)
                ELSE UNCHANGED <<swapObj, ticks>>
    /\ UNCHANGED <<activeSwaps, monitoringIntervals>>

\* handleUserLockedSwap up to its first await that leaves the event loop
handleUserLockedSwap(id) ==
    /\ IF swapObj[id].destinationChain = "sui"
         THEN /\ ticks' = ticks (+) SetToBag({NewTick(id, "sendTransaction",
                                                      "both_locked")})
              /\ swapObj' = swapObj
         ELSE updateSwapStatus(id, "both_locked", ticks)
    /\ UNCHANGED <<activeSwaps, monitoringIntervals>>

\* handleBothLockedSwap
handleBothLockedSwap(id) ==
    /\ IF checkUserClaimed(swapObj[id]) /\ ~checkResolverClaimed(swapObj[id])
         THEN updateSwapStatus(id, "completed", ticks)
         ELSE IF checkResolverClaimed(swapObj[id])
                   /\ ~checkUserClaimed(swapObj[id])
                THEN updateSwapStatus(id, "resolver_claimed", ticks)
                ELSE UNCHANGED <<swapObj, ticks>>
    /\ UNCHANGED <<activeSwaps, monitoringIntervals>>

\* handleUserClaimedSwap
handleUserClaimedSwap(id) ==
    /\ IF checkResolverClaimed(swapObj[id])
         THEN updateSwapStatus(id, "completed", ticks)
         ELSE UNCHANGED <<swapObj, ticks>>
    /\ UNCHANGED <<activeSwaps, monitoringIntervals>>

\* stopSwapMonitoring
stopSwapMonitoring(id) ==
    /\ monitoringIntervals' = monitoringIntervals \ {id}
    /\ activeSwaps' = IF id \in activeSwaps /\ swapObj[id].status \in Terminal
                        THEN activeSwaps \ {id}
                        ELSE activeSwaps
    /\ UNCHANGED <<swapObj, ticks>>

\* a timer of startSwapMonitoring fires: monitorSwap
IntervalFire(id) ==
    /\ id \in monitoringIntervals \cup leakedIntervals
    /\ Inflight < MaxInflight
    /\ IF id \notin activeSwaps
         THEN UNCHANGED <<swapObj, ticks, activeSwaps, monitoringIntervals>>
         ELSE CASE swapObj[id].status = "pending" -> handlePendingSwap(id)
                [] swapObj[id].status = "user_locked" ->
                     handleUserLockedSwap(id)
                [] swapObj[id].status \in {"resolver_locked", "both_locked"} ->
                     handleBothLockedSwap(id)
                [] swapObj[id].status = "user_claimed" ->
                     handleUserClaimedSwap(id)
                [] OTHER -> stopSwapMonitoring(id)
    /\ UNCHANGED <<now, chainVars, relayerVars, pair, storeVars, running, listening, db,
                   leakedIntervals, refundsSubmitted, swapEscrow>>

\* createSuiEscrowAndLock after sendTransaction: the swap's userAddress goes in
\* as resolver, its resolverTimelock as user_timelock and its userTimelock as
\* resolver_timelock; a failed transaction throws and handleUserLockedSwap
\* logs it
TickSendTransaction(t) ==
    /\ t.pc = "sendTransaction"
    /\ IF create_swap_escrow_ok("user", swapObj[t.id].resolverTimelock,
                                swapObj[t.id].userTimelock, SuiTime)
         THEN updateSwapStatus(t.id, t.write, Without(t))
         ELSE /\ ticks' = Without(t)
              /\ swapObj' = swapObj
    /\ UNCHANGED <<now, chainVars, relayerVars, pair, storeVars, running, listening,
                   activeSwaps, db, monitoringIntervals, leakedIntervals,
                   refundsSubmitted, swapEscrow>>

\* updateSwapStatus from the return of Database.updateSwap on
TickUpdateSwap(t) ==
    /\ t.pc = "updateSwap"
    /\ db' = IF db[t.id] = "absent" THEN db ELSE [db EXCEPT ![t.id] = t.write]
    /\ activeSwaps' = activeSwaps \cup {t.id}
    /\ ticks' = Without(t)
    /\ UNCHANGED <<now, chainVars, relayerVars, pair, storeVars, running, listening,
                   swapObj, monitoringIntervals, leakedIntervals,
                   refundsSubmitted, swapEscrow>>

\* forceRefund, reached from the health API: it throws for an unknown swap and
\* otherwise writes a log line
forceRefund(id) ==
    /\ id \in activeSwaps
    /\ UNCHANGED <<now, chainVars, relayerVars, pair, storeVars, resolverVars>>

RunCreateSwap == \E t \in BagToSet(ticks) : TickCreateSwap(t)
RunSendTransaction == \E t \in BagToSet(ticks) : TickSendTransaction(t)
RunUpdateSwap == \E t \in BagToSet(ticks) : TickUpdateSwap(t)
ResolverStep == RunCreateSwap \/ RunSendTransaction \/ RunUpdateSwap

\* rows of the swaps table that initialize() may find for swap w1
StoredStatuses ==
    {"absent", "pending", "user_locked", "both_locked", "user_claimed",
     "refunded", "expired"}

\* the constructor followed by initialize(): loadActiveSwaps reads the rows
\* that are neither completed, failed nor expired
InitResolver ==
    /\ InitChain({"bob"}, {Absent}, {Absent}, {"alice"}, {Absent}, {Absent})
    /\ InitRelayer
    /\ InitPairIdle
    /\ InitStoreIdle
    /\ running = FALSE
    /\ listening = FALSE
    /\ monitoringIntervals = {}
    /\ leakedIntervals = {}
    /\ ticks = EmptyBag
    /\ refundsSubmitted = {}
    /\ \E st \in StoredStatuses, dc \in Chains, locked \in BOOLEAN :
         /\ db = [id \in SwapIds |-> IF id = "w1" THEN st ELSE "absent"]
         /\ swapEscrow = [id \in SwapIds |->
                            DeployedSwapEscrow(id, id = "w1" /\ locked)]
         /\ activeSwaps = {id \in SwapIds : db[id] \notin Terminal \cup {"absent"}}
         /\ swapObj = [id \in SwapIds |->
                         IF id \in activeSwaps
                           THEN [status |-> db[id],
                                 userTimelock |-> swapEscrow[id].userTimelock,
                                 resolverTimelock |->
                                     swapEscrow[id].resolverTimelock,
                                 destinationChain |-> dc]
                           ELSE NoSwap]

NextResolver ==
    \/ RsStart
    \/ RsStop
    \/ \E id \in SwapIds, ours \in BOOLEAN : SwapCreatedEvent(id, ours)
    \/ RunCreateSwap
    \/ \E id \in SwapIds : IntervalFire(id)
    \/ RunSendTransaction
    \/ RunUpdateSwap
    \/ \E id \in SwapIds : forceRefund(id)
    \/ \E id \in SwapIds : LockUserSide(id)
    \/ \E id \in SwapIds : RefundUserSide(id)
    \/ Tick

SpecResolver == InitResolver /\ [][NextResolver]_vars

\* timers keep firing, awaited calls return and the clock advances
SpecResolverFair ==
    /\ SpecResolver
    /\ WF_vars(Tick)
    /\ WF_vars(ResolverStep)
    /\ \A id \in SwapIds : WF_vars(IntervalFire(id))

----------------------------------------------------------------------------
(* Swap lifecycle properties *)

\* C7: a swap the service has marked EXPIRED has a refund attempt recorded or
\* a refund of its escrow observable on-chain.
C7_ExpiredOnlyAfterRefund ==
    \A id \in SwapIds :
        swapObj[id].status = "expired" =>
            \/ id \in refundsSubmitted
            \/ swapEscrow[id].refunded

\* C7 witness of the divergence: a swap is EXPIRED in memory and in the store
\* while the user's funds are locked, not refunded, the on-chain timelock has
\* not passed and no refund was ever attempted.
C7_ExpiredBeforeTimelock ==
    \E id \in SwapIds :
        /\ swapObj[id].status = "expired"
        /\ db[id] = "expired"
        /\ swapEscrow[id].locked
        /\ ~swapEscrow[id].refunded
        /\ EthTime <= swapEscrow[id].userTimelock
        /\ id \notin refundsSubmitted

TerminalAbsorbing ==
    \A id \in SwapIds :
        /\ swapObj[id].status \in Terminal =>
               swapObj'[id].status = swapObj[id].status
        /\ db[id] \in Terminal => db'[id] = db[id]

\* C8: once the status of a swap is COMPLETED, EXPIRED or FAILED, in memory or
\* in the store, no step changes it, monitoring ticks in flight included.
C8_TerminalAbsorbing == [][TerminalAbsorbing]_vars

\* C8 witness: a swap is EXPIRED and already dropped by an overlapping tick
\* while the store write of the tick that expired it has not returned.
C8_Witness ==
    \E id \in SwapIds :
        /\ swapObj[id].status = "expired"
        /\ id \notin activeSwaps
        /\ \E t \in BagToSet(ticks) : t.id = id /\ t.pc = "updateSwap"

----------------------------------------------------------------------------
(* Timeout validation and digest agreement of a pair *)

\* the acceptance rule of the specification: both durations reach the
\* profile's minimum and the source exceeds the destination by the margin
MarginRuleAccepts(cfg, s, d) ==
    /\ s >= cfg.minTimeout
    /\ d >= cfg.minTimeout
    /\ s - d >= cfg.safetyMargin

NoSafeAnywhere ==
    /\ \A e \in EthIds : ~ethSafe[e].exists
    /\ \A u \in SuiIds : ~suiSafe[u].exists

\* C11: once validation has run, the call was rejected exactly when the
\* durations fail "both >= min_timeout and source - destination >=
\* safety_margin", and a rejected call has created no escrow on either ledger.
C11_AcceptsExactlyMarginRule ==
    pair.phase # "called" =>
        /\ pair.phase = "rejected" <=>
               ~MarginRuleAccepts(Config(pair.network), pair.sourceLockDuration,
                                  pair.destLockDuration)
        /\ pair.phase = "rejected" => NoSafeAnywhere

\* C11 witness of the divergence: on testnet the pair of the integration test,
\* 10 minutes over 5 minutes, is rejected and no escrow exists.
C11_TestnetTenOverFiveRejected ==
    /\ pair.network = "testnet"
    /\ pair.sourceLockDuration = 10 * 60 * 1000
    /\ pair.destLockDuration = 5 * 60 * 1000
    /\ pair.phase = "rejected"
    /\ NoSafeAnywhere

\* the hash check of withdraw on each ledger, for secret s
EthHashCheck(e, s) == EthComputedHash(ethSafe[e], s) = ethSafe[e].secretHash

SuiHashCheck(u, s) ==
    IF suiSafe[u].use_sha256
      THEN verify_secret_sha256(s, suiSafe[u].secret_hash)
      ELSE verify_secret(s, suiSafe[u].secret_hash)

\* C12: the secret of a created pair passes the withdraw hash check of every
\* safe of the pair, on Ethereum and on Sui.
C12_SecretOpensBothSides ==
    pair.phase = "created" =>
        /\ \A e \in EthIds : ethSafe[e].exists => EthHashCheck(e, "s1")
        /\ \A u \in SuiIds : suiSafe[u].exists => SuiHashCheck(u, "s1")

\* C12 witness of the divergence: the Ethereum side of a pair was withdrawn
\* with the secret, and the withdraw with the same secret on the open Sui side
\* was rejected.
C12_SuiSideRejectsSecret ==
    /\ pair.phase = "created"
    /\ \E e \in EthIds :
          ethSafe[e].isWithdrawn /\ ethSafe[e].revealedSecret = "s1"
    /\ lastOp.op = "withdraw"
    /\ lastOp.chain = "sui"
    /\ lastOp.secret = "s1"
    /\ lastOp.avail
    /\ ~lastOp.ok
    /\ suiSafe[lastOp.id].secret_hash = HashUtilitySha256("s1")

----------------------------------------------------------------------------
(* Concurrency of the resolver *)

\* monitoring steps of swap id that have started and not returned
MonitorSteps(id) ==
    {t \in BagToSet(ticks) : t.id = id /\ t.pc \in {"sendTransaction", "updateSwap"}}

MonitorInflight(id) ==
    BagCardinality([t \in MonitorSteps(id) |-> CopiesIn(t, ticks)])

----------------------------------------------------------------------------
(* SpecRelayTwo: two running RelayerService instances subscribed to the same *)
(* ledgers                                                                  *)

\* two instances after start(): each has registered one callback per chain
InitTwoInstances ==
    /\ isRunning = TRUE
    /\ ethListeners = 2
    /\ suiListeners = 2
    /\ inbox = <<>>
    /\ tasks = EmptyBag
    /\ observed = {}
    /\ submitted = {}

InitRelayTwo ==
    /\ InitChain({"bob"}, {"sha256"}, {Absent}, {"alice"},
                 {"module_sha256"}, {Absent})
    /\ InitTwoInstances
    /\ InitPairIdle
    /\ InitStoreIdle
    /\ InitResolverIdle

NextRelayTwo ==
    \/ PartyEthWithdraw
    \/ PartyEthRefund
    \/ PartySuiWithdraw
    \/ PartySuiRefund
    \/ Tick
    \/ Deliver
    \/ RunFind
    \/ RunWithdraw
    \/ RunDelay

SpecRelayTwo == InitRelayTwo /\ [][NextRelayTwo]_vars

\* callbacks that wait to retry a withdraw on a safe another instance of the
\* relayer has already withdrawn
LosersRetrying ==
    {t \in BagToSet(tasks) :
        /\ t.pc = "delay"
        /\ Target(t.dir) = "ethereum"
        /\ ethSafe[Head(t.todo)].isWithdrawn
        /\ ethSafe[Head(t.todo)].paidTo = Relayer}

\* C14: when two instances attempt the same complementary withdraw, the
\* instance that loses recognises the escrow as already processed and does not
\* schedule a retry.
C14_LoserDoesNotRetry == LosersRetrying = {}

\* C14 witness of the divergence: one instance withdrew the Ethereum safe, the
\* other instance's attempt was rejected as already withdrawn, counted as a
\* failure, retried and rejected again.
C14_LoserRetriesAsFailure ==
    /\ \E t \in LosersRetrying : t.attempt >= 2
    /\ lastOp.op = "withdraw"
    /\ lastOp.caller = Relayer
    /\ ~lastOp.avail
    /\ ~lastOp.ok


----------------------------------------------------------------------------
(* SpecStore: the swaps table under two clients that share one database    *)
(* file.  Each client reads a row with getSwap, decides on a new status    *)
(* and writes the row back with updateSwap.                                 *)

\* Database.getSwap: SELECT * FROM swaps WHERE id = ?; null for no row
getSwap(w, id) ==
    /\ writers[w].pc = "idle"
    /\ db[id] # "absent"
    /\ writers' = [writers EXCEPT
                     ![w] = [pc |-> "read", id |-> id, seen |-> rowVersion[id],
                             status |-> db[id]]]
    /\ UNCHANGED <<now, chainVars, relayerVars, pair, resolverVars, rowVersion,
                   crashes, ledgerVars>>

\* Database.updateSwap: UPDATE swaps SET ..., status = ?, updatedAt = ?
\* WHERE id = ?.  The statement names no version and the table has no such
\* column, so it is applied whatever happened to the row since it was read.
updateSwap(w, newStatus) ==
    /\ writers[w].pc = "read"
    /\ db' = [db EXCEPT ![writers[w].id] = newStatus]
    /\ rowVersion' = [rowVersion EXCEPT ![writers[w].id] = @ + 1]
    /\ writers' = [writers EXCEPT ![w].pc = "done", ![w].status = newStatus]
    /\ UNCHANGED <<now, chainVars, relayerVars, pair, running, listening,
                   activeSwaps, swapObj, monitoringIntervals, leakedIntervals,
                   ticks, refundsSubmitted, swapEscrow, crashes, ledgerVars>>

StoreRead == \E w \in Writers, id \in SwapIds : getSwap(w, id)
StoreWrite == \E w \in Writers, st \in SwapStatus : updateSwap(w, st)

\* both rows exist when the clients open the database
InitStore ==
    /\ InitChain({"bob"}, {Absent}, {Absent}, {"alice"}, {Absent}, {Absent})
    /\ InitRelayer
    /\ InitPairIdle
    /\ InitStoreIdle
    /\ running = FALSE
    /\ listening = FALSE
    /\ activeSwaps = {}
    /\ swapObj = [id \in SwapIds |-> NoSwap]
    /\ db \in [SwapIds -> {"pending", "user_locked"}]
    /\ monitoringIntervals = {}
    /\ leakedIntervals = {}
    /\ ticks = EmptyBag
    /\ refundsSubmitted = {}
    /\ swapEscrow = [id \in SwapIds |-> NoSwapEscrow]

NextStore == StoreRead \/ StoreWrite

SpecStore == InitStore /\ [][NextStore]_vars

\* the writes that were accepted although the row had changed since the
\* client read it
RacingWrites ==
    {p \in Writers \X Writers :
        /\ p[1] # p[2]
        /\ writers[p[1]].pc = "done"
        /\ writers[p[2]].pc = "done"
        /\ writers[p[1]].id = writers[p[2]].id
        /\ writers[p[1]].seen = writers[p[2]].seen}

\* C15: of two clients that read the same version of a swap and both write,
\* only one write is accepted; the other is rejected with VersionConflict, so
\* no update of the swap's status is lost.
C15_SecondWriterRejected == RacingWrites = {}

\* Both clients read the same version of swap w1, both UPDATEs were accepted,
\* and the row holds the status of one of them only: the other update is lost.
C15_UpdateLost ==
    \E p \in RacingWrites :
        /\ writers[p[1]].id = "w1"
        /\ writers[p[1]].status # writers[p[2]].status
        /\ db["w1"] = writers[p[2]].status
        /\ rowVersion["w1"] = writers[p[1]].seen + 2


----------------------------------------------------------------------------
(* SpecCrash: the resolver process may die at any point and be started     *)
(* again on the same database file.                                         *)

\* crashes followed in one run
MaxCrashes == 1

\* The process dies: its memory, its timers and its callbacks that have not
\* returned are gone.  A new process runs the constructor, initialize()
\* (loadActiveSwaps: the rows that are neither completed, failed nor expired)
\* and start().  The listener registered by start() receives the events
\* emitted from then on; nothing re-reads the events of earlier blocks.
CrashRestart ==
    /\ running
    /\ crashes < MaxCrashes
    /\ crashes' = crashes + 1
    /\ LET loaded == {id \in SwapIds : db[id] \notin Terminal \cup {"absent"}}
       IN  /\ activeSwaps' = loaded
           /\ swapObj' = [id \in SwapIds |->
                            IF id \in loaded
                              THEN [swapObj[id] EXCEPT !.status = db[id]]
                              ELSE NoSwap]
           /\ monitoringIntervals' = loaded
    /\ leakedIntervals' = {}
    /\ ticks' = EmptyBag
    /\ running' = TRUE
    /\ listening' = TRUE
    /\ UNCHANGED <<now, chainVars, relayerVars, pair, writers, rowVersion,
                   ledgerVars, db,
                   refundsSubmitted, swapEscrow>>

NextCrash == NextResolver \/ CrashRestart

SpecCrash == InitResolver /\ [][NextCrash]_vars

\* the return of one awaited call made on behalf of one swap
StepOf(id, pc) ==
    \E t \in BagToSet(ticks) :
        /\ t.id = id
        /\ t.pc = pc
        /\ (TickCreateSwap(t) \/ TickSendTransaction(t) \/ TickUpdateSwap(t))

Awaits == {"createSwap", "sendTransaction", "updateSwap"}

\* timers keep firing (the bound on calls in flight only delays them), the
\* awaited calls of every swap return and the clock advances; a crash is
\* never forced
SpecCrashFair ==
    /\ SpecCrash
    /\ WF_vars(Tick)
    /\ \A id \in SwapIds, pc \in Awaits : WF_vars(StepOf(id, pc))
    /\ \A id \in SwapIds : SF_vars(IntervalFire(id))

\* the same service when no crash happens
SpecUninterruptedFair ==
    /\ InitResolver /\ [][NextResolver]_vars
    /\ WF_vars(Tick)
    /\ \A id \in SwapIds, pc \in Awaits : WF_vars(StepOf(id, pc))
    /\ \A id \in SwapIds : SF_vars(IntervalFire(id))

\* the service has taken the creation event of swap id and its handler has
\* not yet stored the swap
Accepted(id) ==
    /\ db[id] = "absent"
    /\ \E t \in BagToSet(ticks) : t.pc = "createSwap" /\ t.id = id

\* C16: a swap the service has accepted ends in the phase an uninterrupted
\* run drives it to (EXPIRED in the store, unless the service is stopped),
\* whatever crashes and restarts on the same store happen on the way.
C16_SamePhaseAfterRestart ==
    \A id \in SwapIds : Accepted(id) ~> (db[id] = "expired" \/ ~running)

\* The restarted service is running and idle, swap w1 has an escrow on chain
\* and no row in the store: its creation event died with the old process.
C16_SwapLostByCrash ==
    /\ running
    /\ listening
    /\ ticks = EmptyBag
    /\ monitoringIntervals = {}
    /\ swapEscrow["w1"].exists
    /\ db["w1"] = "absent"
    /\ crashes = 1


----------------------------------------------------------------------------
(* Replay of ledger events *)

\* C17: handling the creation event of a swap that the store already holds
\* changes nothing in the store: no second row and no change of status.
\* (Withdrawal events reach only the relayer, which has no store; nothing
\* calls Database.recordSecretReveal.)
C17_ReplayLeavesStore ==
    [][\A t \in BagToSet(ticks) :
          (TickCreateSwap(t) /\ db[t.id] # "absent") => db' = db]_vars

\* The creation event of swap w1 was delivered again, twice, after the swap
\* had been stored and had expired.
C17_ReplayOfExpiredSwap ==
    /\ db["w1"] = "expired"
    /\ CopiesIn(NewTick("w1", "createSwap", "pending"), ticks) >= 2


----------------------------------------------------------------------------
(* Rejections of the relayer's withdraw *)

\* callbacks of the relayer that wait in _delay to repeat a withdraw
Retrying(chain, id, secret) ==
    {t \in BagToSet(tasks) :
        /\ t.pc = "delay"
        /\ Target(t.dir) = chain
        /\ Head(t.todo) = id
        /\ t.secret = secret}

\* the latest call is a withdraw of the relayer that the ledger rejected
RelayerRejected ==
    /\ lastOp.op = "withdraw"
    /\ lastOp.caller = Relayer
    /\ ~lastOp.ok

\* ... because the secret does not hash to the digest of an open safe
InvalidSecretRejected ==
    /\ RelayerRejected
    /\ lastOp.avail
    /\ IF lastOp.chain = "ethereum"
         THEN /\ lastOp.time <= EthDeadline(ethSafe[lastOp.id])
              /\ ~EthHashCheck(lastOp.id, lastOp.secret)
         ELSE ~SuiHashCheck(lastOp.id, lastOp.secret)

\* ... because the safe was already withdrawn or refunded
AlreadyProcessedRejected ==
    /\ RelayerRejected
    /\ ~lastOp.avail

\* SpecRelayUnflagged: as SpecRelay, with the first Ethereum safe created by
\* SafeRecord.createSafeWithHash under the SHA-256 digest of the secret and
\* _useSha256 = false, so that it checks keccak256 of what is presented
InitRelayUnflagged ==
    /\ InitChain({"bob"}, {"with_hash_unflagged"}, {"sha256"}, {"alice"},
                 {"module_sha256"}, {Absent})
    /\ InitStarted
    /\ InitPairIdle
    /\ InitStoreIdle
    /\ InitResolverIdle

SpecRelayUnflagged == InitRelayUnflagged /\ [][NextRelay]_vars

\* C18: after a withdraw rejected for an invalid secret the relayer schedules
\* no further attempt for that safe and secret.
C18_NoRetryAfterInvalidSecret ==
    InvalidSecretRejected =>
        Retrying(lastOp.chain, lastOp.id, lastOp.secret) = {}

\* The relayer's second attempt with the same secret on the same open safe was
\* rejected for the same reason, and a third attempt is scheduled.
C18_InvalidSecretRetried ==
    /\ InvalidSecretRejected
    /\ \E t \in Retrying(lastOp.chain, lastOp.id, lastOp.secret) :
           t.attempt >= 2

\* C19: a withdraw rejected because the safe was already withdrawn or
\* refunded counts as success: the relayer schedules no retry of it.
C19_AlreadyProcessedIsSuccess ==
    AlreadyProcessedRejected =>
        Retrying(lastOp.chain, lastOp.id, lastOp.secret) = {}

\* A party had already withdrawn or refunded the Ethereum safe; the relayer's
\* second attempt was rejected like the first and a third is scheduled.
C19_AlreadyProcessedRetried ==
    /\ AlreadyProcessedRejected
    /\ lastOp.chain = "ethereum"
    /\ ethSafe[lastOp.id].paidTo # Relayer
    /\ \E t \in Retrying(lastOp.chain, lastOp.id, lastOp.secret) :
           t.attempt >= 2


----------------------------------------------------------------------------
(* stop() *)

\* C20: once the relayer is stopped, none of its callbacks starts a withdraw:
\* neither the first submit after a lookup nor a further attempt of a withdraw
\* that was waiting to be retried.
C20_NoSubmitAfterStop == [][~isRunning => ~RunWithdraw]_vars

\* The relayer was stopped while a callback waits in _delay for its next
\* attempt on a safe that is still open.
C20_StoppedWhileWaiting ==
    /\ ~isRunning
    /\ \E t \in BagToSet(tasks) :
          /\ t.pc = "delay"
          /\ Target(t.dir) = "ethereum"
          /\ ~ethSafe[Head(t.todo)].isWithdrawn
          /\ ~ethSafe[Head(t.todo)].isRefunded

\* the resolver's side of the same rule: no row of the swaps table is written
\* while the service is stopped
NoStoreWriteAfterStop == [][~running => db' = db]_vars


----------------------------------------------------------------------------
(* Operator actions *)

\* the user side of the swap's escrow holds funds and its timelock has passed
StillLockedPastDeadline(id) ==
    /\ swapEscrow[id].exists
    /\ swapEscrow[id].locked
    /\ ~swapEscrow[id].refunded
    /\ EthTime > swapEscrow[id].userTimelock

\* C21: forceRefund of a known swap with a side that is still locked past its
\* deadline leaves a refund of that swap submitted.
C21_ForceRefundSchedulesRefund ==
    \A id \in SwapIds :
        ~ENABLED (/\ forceRefund(id)
                  /\ StillLockedPastDeadline(id)
                  /\ id \notin refundsSubmitted')

\* forceRefund is callable for swap w1, whose user side is locked past its
\* timelock, and no refund of it has been submitted.
C21_LockedSwapAwaitsRefund ==
    /\ ENABLED forceRefund("w1")
    /\ StillLockedPastDeadline("w1")
    /\ "w1" \notin refundsSubmitted


----------------------------------------------------------------------------
(* SpecRegister: registration of resolvers with the factories of both      *)
(* ledgers.  Stakes are counted in whole coins (1 ether, 1 SUI).            *)

\* SwapEscrowFactory.MIN_RESOLVER_STAKE = 1 ether
MIN_RESOLVER_STAKE == 1
\* SwapEscrowFactory.min_resolver_stake = 1_000_000_000 MIST = 1 SUI
min_resolver_stake == 1

\* values of config.resolver.stakeAmount and of the stakes others send
StakeChoices == {0, 1, 2}
\* largest stake of one account that is followed
MaxStake == 4

\* SwapEscrowFactory.registerResolver (Ethereum), msg.sender = a
registerResolver_ok(a, value) ==
    /\ value >= MIN_RESOLVER_STAKE
    /\ a \notin authorizedResolvers

registerResolver(a, value) ==
    /\ registerResolver_ok(a, value)
    /\ resolverStakes' = [resolverStakes EXCEPT ![a] = value]
    /\ authorizedResolvers' = authorizedResolvers \cup {a}

\* SwapEscrowFactory.unregisterResolver (Ethereum)
unregisterResolver(a) ==
    /\ a \in authorizedResolvers
    /\ resolverStakes[a] > 0
    /\ resolverStakes' = [resolverStakes EXCEPT ![a] = 0]
    /\ authorizedResolvers' = authorizedResolvers \ {a}
    /\ UNCHANGED <<now, chainVars, relayerVars, pair, resolverVars, writers,
                   rowVersion, crashes, escrows, sideVars, resolvers, resolver_stakes>>

\* position of a in factory.resolvers, 0 when it is not there
ResolverIndex(a) ==
    IF \E i \in 1..Len(resolvers) : resolvers[i] = a
      THEN CHOOSE i \in 1..Len(resolvers) :
              /\ resolvers[i] = a
              /\ \A j \in 1..(i - 1) : resolvers[j] # a
      ELSE 0

\* stake recorded on Sui for a: the sum over its entries
RECURSIVE SuiStakeFrom(_, _)
SuiStakeFrom(a, i) ==
    IF i > Len(resolvers) THEN 0
    ELSE (IF resolvers[i] = a THEN resolver_stakes[i] ELSE 0)
            + SuiStakeFrom(a, i + 1)

SuiStakeOf(a) == SuiStakeFrom(a, 1)

\* sui_swap_escrow::register_resolver, sender a: a new sender is appended, a
\* registered sender has the stake added to the one it has
register_resolver_ok(stake_amount) == stake_amount >= min_resolver_stake

register_resolver(a, stake_amount) ==
    /\ register_resolver_ok(stake_amount)
    /\ IF ResolverIndex(a) = 0
         THEN /\ resolvers' = Append(resolvers, a)
              /\ resolver_stakes' = Append(resolver_stakes, stake_amount)
         ELSE /\ resolvers' = resolvers
              /\ resolver_stakes' =
                   [resolver_stakes EXCEPT ![ResolverIndex(a)] = @ + stake_amount]

\* ResolverService.registerAsResolver with config.resolver.stakeAmount = stake.
\* Ethereum: registerResolver is sent only when isAuthorizedResolver is
\* false, and its revert is rethrown, which ends the call.  Sui:
\* register_resolver is always sent; its failure is logged and ignored.
registerAsResolver(stake) ==
    /\ SuiStakeOf("resolver") + stake <= MaxStake
    /\ IF "resolver" \in authorizedResolvers
         THEN UNCHANGED <<authorizedResolvers, resolverStakes>>
         ELSE IF registerResolver_ok("resolver", stake)
                THEN registerResolver("resolver", stake)
                ELSE UNCHANGED <<authorizedResolvers, resolverStakes>>
    /\ IF /\ "resolver" \notin authorizedResolvers
          /\ ~registerResolver_ok("resolver", stake)
         THEN UNCHANGED <<resolvers, resolver_stakes>>
         ELSE IF register_resolver_ok(stake)
                THEN register_resolver("resolver", stake)
                ELSE UNCHANGED <<resolvers, resolver_stakes>>
    /\ UNCHANGED <<now, chainVars, relayerVars, pair, resolverVars, writers,
                   rowVersion, crashes, escrows, sideVars>>

\* another resolver registers with the contracts directly
OtherRegistersEth(value) ==
    /\ registerResolver("other", value)
    /\ UNCHANGED <<now, chainVars, relayerVars, pair, resolverVars, writers,
                   rowVersion, crashes, escrows, sideVars, resolvers, resolver_stakes>>

OtherRegistersSui(value) ==
    /\ SuiStakeOf("other") + value <= MaxStake
    /\ register_resolver("other", value)
    /\ UNCHANGED <<now, chainVars, relayerVars, pair, resolverVars, writers,
                   rowVersion, crashes, escrows, sideVars, authorizedResolvers, resolverStakes>>

RunRegisterAsResolver == \E stake \in StakeChoices : registerAsResolver(stake)
RunOtherRegistersEth == \E value \in StakeChoices : OtherRegistersEth(value)
RunOtherRegistersSui == \E value \in StakeChoices : OtherRegistersSui(value)
RunUnregister == \E a \in Stakers : unregisterResolver(a)

InitRegister ==
    /\ InitChain({"bob"}, {Absent}, {Absent}, {"alice"}, {Absent}, {Absent})
    /\ InitRelayer
    /\ InitPairIdle
    /\ InitStoreIdle
    /\ InitResolverIdle

NextRegister ==
    \/ RunRegisterAsResolver
    \/ RunOtherRegistersEth
    \/ RunOtherRegistersSui
    \/ RunUnregister

SpecRegister == InitRegister /\ [][NextRegister]_vars

\* the service is registered with the factories of both ledgers
RegisteredOnBoth ==
    /\ "resolver" \in authorizedResolvers
    /\ ResolverIndex("resolver") # 0

\* C22: registerAsResolver run by a service that is already registered leaves
\* the resolver sets and the stakes of both ledgers as they are.
C22_RegistrationIdempotent ==
    [][\A stake \in StakeChoices :
          (RegisteredOnBoth /\ registerAsResolver(stake)) =>
              UNCHANGED <<authorizedResolvers, resolverStakes, resolvers,
                          resolver_stakes>>]_vars

\* The service registered with a stake of one coin; it is listed once on Sui
\* and its stake there has grown to three coins.
C22_SuiStakeGrown ==
    /\ RegisteredOnBoth
    /\ resolverStakes["resolver"] = 1
    /\ SuiStakeOf("resolver") = 3
    /\ Len(SelectSeq(resolvers, LAMBDA a : a = "resolver")) = 1


----------------------------------------------------------------------------
(* Who is paid *)

\* C23: the funds of a withdrawn Ethereum safe went to the safe's beneficiary,
\* whoever called withdraw.
C23_WithdrawPaysBeneficiary ==
    \A e \in EthIds :
        ethSafe[e].isWithdrawn => ethSafe[e].paidTo = ethSafe[e].beneficiary

\* The relayer's withdraw of safe E1 with the revealed secret went through
\* and the amount was transferred to the relayer's account.
C23_RelayerHoldsFunds ==
    /\ lastOp.op = "withdraw"
    /\ lastOp.chain = "ethereum"
    /\ lastOp.id = "E1"
    /\ lastOp.caller = Relayer
    /\ lastOp.ok
    /\ ethSafe["E1"].isWithdrawn
    /\ ethSafe["E1"].paidTo = Relayer
    /\ ethSafe["E1"].beneficiary # Relayer


----------------------------------------------------------------------------
(* SpecEscrow: the SwapEscrow contracts of one swap, one on each ledger    *)
(* (SwapEscrow.sol created by SwapEscrowFactory.sol, and                    *)
(* sui_swap_escrow.move).  Both carry the keccak256 digest of secret s1.    *)
(* Side 0 is the user side (locker user, beneficiary resolver), side 1 the  *)
(* resolver side (locker resolver, beneficiary user).                       *)

\* SwapEscrowFactory.sol, in seconds
MAX_SWAP_DURATION_SOL == 24 * 60 * 60
CLEANUP_DELAY_SOL == 60 * 60
\* sui_swap_escrow.move, in milliseconds
CLEANUP_DELAY == 3600000

\* block.timestamp on Ethereum, the Clock on Sui
LedgerTime(c) == IF c = "ethereum" THEN EthTime ELSE SuiTime
\* one minute in the unit of the ledger's time
Minute(c) == IF c = "ethereum" THEN 60 ELSE 60 * MsPerSec

\* a long step of the clock, and how many of them are followed
LongTickMs == 900000
MaxLongTicks == 9

LongTick ==
    /\ now + LongTickMs <= Now0 + MaxLongTicks * LongTickMs
    /\ now' = now + LongTickMs
    /\ lastOp' = NoOp
    /\ UNCHANGED <<ethSafe, ethHashToAddresses, suiSafe, suiHashToSafe,
                   relayerVars>>
    /\ UNCHANGED appVars

\* createSwapEscrow without the two timelock requirements of lines 158-159
createSwapEscrow_ok_AnyTimelocks(resolver, userTimelock, resolverTimelock, t) ==
    /\ ~escrows["ethereum"].exists
    /\ resolver \in authorizedResolvers
    /\ userTimelock > t
    /\ resolverTimelock > t

\* SwapEscrowFactory.createSwapEscrow (the swap id is unused so far)
createSwapEscrow_ok(resolver, userTimelock, resolverTimelock, t) ==
    /\ ~escrows["ethereum"].exists
    /\ resolver \in authorizedResolvers
    /\ userTimelock > t
    /\ resolverTimelock > t
    /\ userTimelock <= t + MAX_SWAP_DURATION_SOL
    /\ resolverTimelock + MIN_TIMELOCK_BUFFER_SOL <= userTimelock

CreateOk(c, resolver, user_timelock, resolver_timelock) ==
    IF c = "ethereum"
      THEN createSwapEscrow_ok(resolver, user_timelock, resolver_timelock,
                               EthTime)
      ELSE /\ ~escrows["sui"].exists
           /\ create_swap_escrow_ok(resolver, user_timelock, resolver_timelock,
                                    SuiTime)

\* timelocks a user may ask for, in minutes from the time of the call
UserTimelockChoices == {15, 30, 45, 60, 24 * 60, 24 * 60 + 15}
ResolverTimelockChoices == {0, 15, 30}

\* the user creates the escrow of the swap on ledger c
CreateSwapEscrow(c, resolver, um, rm) ==
    LET ut == LedgerTime(c) + um * Minute(c)
        rt == LedgerTime(c) + rm * Minute(c)
    IN  /\ CreateOk(c, resolver, ut, rt)
        /\ escrows' = [escrows EXCEPT
                         ![c] = [NoDualEscrow EXCEPT
                                   !.exists = TRUE, !.user_timelock = ut,
                                   !.resolver_timelock = rt,
                                   !.created_at = LedgerTime(c)]]
        /\ UNCHANGED <<now, chainVars, relayerVars, pair, resolverVars,
                       writers, rowVersion, crashes, factoryVars, sideVars>>

\* lockUserSide / lock_user_side, called by the user
lockUserSide(c) ==
    /\ escrows[c].exists
    /\ ~escrows[c].isDestroyed
    /\ ~escrows[c].userSide.locked
    /\ LedgerTime(c) <= escrows[c].user_timelock
    /\ escrows' = [escrows EXCEPT ![c].userSide.locked = TRUE]
    /\ UNCHANGED <<now, chainVars, relayerVars, pair, resolverVars,
                   writers, rowVersion, crashes, factoryVars, sideVars>>

\* lockResolverSide without "User side must be locked first"
lockResolverSide_ok_AnyOrder(c) ==
    /\ escrows[c].exists
    /\ ~escrows[c].isDestroyed
    /\ ~escrows[c].resolverSide.locked
    /\ LedgerTime(c) <= escrows[c].resolver_timelock

\* lockResolverSide / lock_resolver_side, called by the resolver
lockResolverSide_ok(c) ==
    /\ escrows[c].exists
    /\ ~escrows[c].isDestroyed
    /\ ~escrows[c].resolverSide.locked
    /\ escrows[c].userSide.locked
    /\ LedgerTime(c) <= escrows[c].resolver_timelock

lockResolverSide(c) ==
    /\ lockResolverSide_ok(c)
    /\ escrows' = [escrows EXCEPT ![c].resolverSide.locked = TRUE]
    /\ UNCHANGED <<now, chainVars, relayerVars, pair, resolverVars,
                   writers, rowVersion, crashes, factoryVars, sideVars>>

SideTimelock(e, side) ==
    IF side = 0 THEN e.user_timelock ELSE e.resolver_timelock
SideOf(e, side) == IF side = 0 THEN e.userSide ELSE e.resolverSide
Beneficiary(side) == IF side = 0 THEN "resolver" ELSE "user"
Locker(side) == IF side = 0 THEN "user" ELSE "resolver"

SetSide(e, side, s) ==
    IF side = 0 THEN [e EXCEPT !.userSide = s] ELSE [e EXCEPT !.resolverSide = s]

\* canClaim / can_claim
canClaim(e, side, t) ==
    /\ SideOf(e, side).locked
    /\ ~SideOf(e, side).claimed
    /\ ~SideOf(e, side).refunded
    /\ t <= SideTimelock(e, side)

\* canRefund / can_refund
canRefund(e, side, t) ==
    /\ SideOf(e, side).locked
    /\ ~SideOf(e, side).claimed
    /\ ~SideOf(e, side).refunded
    /\ t > SideTimelock(e, side)

\* _autoClaimOtherSide / auto_claim_other_side
autoClaimOtherSide(e, claimedSide, t) ==
    IF canClaim(e, 1 - claimedSide, t)
      THEN SetSide(e, 1 - claimedSide,
                   [SideOf(e, 1 - claimedSide) EXCEPT !.claimed = TRUE])
      ELSE e

\* _checkAndDestroy on Ethereum counts a side that was never locked and has
\* expired as processed; check_and_destroy on Sui does not
SideProcessed(c, e, side, t) ==
    \/ SideOf(e, side).claimed
    \/ SideOf(e, side).refunded
    \/ /\ c = "ethereum"
       /\ ~SideOf(e, side).locked
       /\ t > SideTimelock(e, side)

checkAndDestroy(c, e, t) ==
    IF SideProcessed(c, e, 0, t) /\ SideProcessed(c, e, 1, t)
      THEN [e EXCEPT !.isDestroyed = TRUE]
      ELSE e

\* who can present s1: the user who chose it, and everybody once a claim
\* has published it on either ledger
Knows(caller) == caller = "user" \/ \E c \in Chains : escrows[c].revealed

Callers == {"user", "resolver"}

\* claimFunds / claim_funds with the secret s1
claimFunds(c, side, caller) ==
    /\ escrows[c].exists
    /\ ~escrows[c].isDestroyed
    /\ Knows(caller)
    /\ caller = Beneficiary(side)
    /\ canClaim(escrows[c], side, LedgerTime(c))
    /\ LET claimed == SetSide([escrows[c] EXCEPT !.revealed = TRUE], side,
                              [SideOf(escrows[c], side) EXCEPT !.claimed = TRUE])
       IN  escrows' = [escrows EXCEPT
                         ![c] = checkAndDestroy(c,
                                   autoClaimOtherSide(claimed, side, LedgerTime(c)),
                                   LedgerTime(c))]
    /\ UNCHANGED <<now, chainVars, relayerVars, pair, resolverVars,
                   writers, rowVersion, crashes, factoryVars, sideVars>>

\* refundFunds / refund_funds
refundFunds(c, side, caller) ==
    /\ escrows[c].exists
    /\ ~escrows[c].isDestroyed
    /\ caller = Locker(side)
    /\ canRefund(escrows[c], side, LedgerTime(c))
    /\ escrows' = [escrows EXCEPT
                     ![c] = checkAndDestroy(c,
                               SetSide(escrows[c], side,
                                  [SideOf(escrows[c], side) EXCEPT !.refunded = TRUE]),
                               LedgerTime(c))]
    /\ UNCHANGED <<now, chainVars, relayerVars, pair, resolverVars,
                   writers, rowVersion, crashes, factoryVars, sideVars>>

\* forceDestroy / force_destroy by anybody, one hour after both timelocks
forceDestroy(c) ==
    /\ escrows[c].exists
    /\ ~escrows[c].isDestroyed
    /\ LedgerTime(c) > escrows[c].user_timelock
                         + (IF c = "ethereum" THEN CLEANUP_DELAY_SOL
                                              ELSE CLEANUP_DELAY)
    /\ LedgerTime(c) > escrows[c].resolver_timelock
                         + (IF c = "ethereum" THEN CLEANUP_DELAY_SOL
                                              ELSE CLEANUP_DELAY)
    /\ escrows' = [escrows EXCEPT ![c].isDestroyed = TRUE]
    /\ UNCHANGED <<now, chainVars, relayerVars, pair, resolverVars,
                   writers, rowVersion, crashes, factoryVars, sideVars>>

RunCreateSwapEscrow ==
    \E c \in Chains, r \in Stakers, um \in UserTimelockChoices,
       rm \in ResolverTimelockChoices : CreateSwapEscrow(c, r, um, rm)
RunLockUserSide == \E c \in Chains : lockUserSide(c)
RunLockResolverSide == \E c \in Chains : lockResolverSide(c)
RunClaimFunds ==
    \E c \in Chains, side \in {0, 1}, who \in Callers : claimFunds(c, side, who)
RunRefundFunds ==
    \E c \in Chains, side \in {0, 1}, who \in Callers : refundFunds(c, side, who)
RunForceDestroy == \E c \in Chains : forceDestroy(c)

\* the resolver of the swap is registered with both factories
InitEscrow ==
    /\ InitChain({"bob"}, {Absent}, {Absent}, {"alice"}, {Absent}, {Absent})
    /\ InitRelayer
    /\ InitPairIdle
    /\ InitResolverIdle
    /\ writers = [w \in Writers |-> NoWrite]
    /\ rowVersion = [id \in SwapIds |-> 0]
    /\ crashes = 0
    /\ authorizedResolvers = {"resolver"}
    /\ resolverStakes = [a \in Stakers |-> IF a = "resolver" THEN 1 ELSE 0]
    /\ resolvers = <<"resolver">>
    /\ resolver_stakes = <<1>>
    /\ escrows = [c \in Chains |-> NoDualEscrow]
    /\ InitSideIdle

NextEscrow ==
    \/ RunCreateSwapEscrow
    \/ RunLockUserSide
    \/ RunLockResolverSide
    \/ RunClaimFunds
    \/ RunRefundFunds
    \/ RunForceDestroy
    \/ LongTick

SpecEscrow == InitEscrow /\ [][NextEscrow]_vars


----------------------------------------------------------------------------
(* Atomic execution of one escrow                                           *)

\* the locked funds of a side went back to its locker, or nobody can claim
\* them any more
SideLost(c, side) ==
    /\ SideOf(escrows[c], side).locked
    /\ \/ SideOf(escrows[c], side).refunded
       \/ /\ ~SideOf(escrows[c], side).claimed
          /\ \/ LedgerTime(c) > SideTimelock(escrows[c], side)
             \/ escrows[c].isDestroyed

\* C24: atomic execution -- in no reachable state of a swap escrow has one
\* side been claimed while the locked funds of the other side are refunded to
\* their locker or can no longer be claimed.
C24_AtomicExecution ==
    \A c \in Chains, side \in {0, 1} :
        ~(SideOf(escrows[c], side).claimed /\ SideLost(c, 1 - side))

\* both sides of an escrow were locked and one of them has been claimed
C24_ClaimWithBothSidesLocked ==
    \E c \in Chains :
        /\ escrows[c].userSide.locked
        /\ escrows[c].resolverSide.locked
        /\ escrows[c].userSide.claimed \/ escrows[c].resolverSide.claimed


----------------------------------------------------------------------------
(* Timelocks of the escrows that exist                                      *)

\* EthereumFusionEscrow (seconds) and sui_escrow (milliseconds)
MIN_RESOLVER_TIMELOCK_OFFSET_SOL == 30 * 60
MIN_RESOLVER_TIMELOCK_OFFSET == 1800000

validateTimelocks(requesterTimelock, resolverTimelock) ==
    resolverTimelock + MIN_RESOLVER_TIMELOCK_OFFSET_SOL <= requesterTimelock

validate_timelocks(requester_timelock, resolver_timelock) ==
    resolver_timelock + MIN_RESOLVER_TIMELOCK_OFFSET <= requester_timelock

\* thirty minutes and twenty-four hours in the unit of the ledger
ThirtyMinutes(c) == 30 * Minute(c)
TwentyFourHours(c) == 24 * 60 * Minute(c)

ValidateOn(c, requester, resolver) ==
    IF c = "ethereum" THEN validateTimelocks(requester, resolver)
                      ELSE validate_timelocks(requester, resolver)

----------------------------------------------------------------------------
(* The order of the two locks                                               *)

\* the resolver service sends the transaction of createAndLockResolverSide
\* for swap id in this step
SubmitsResolverSide(id) ==
    \E t \in BagToSet(ticks') :
        /\ t.id = id
        /\ t.pc = "sendTransaction"
        /\ CopiesIn(t, ticks') > CopiesIn(t, ticks)

\* the service submits for a swap only while the swap's status is
\* user_locked, the status that handlePendingSwap sets when checkUserLocked
\* answers true
SubmitsOnlyWhenUserLocked ==
    [][\A id \in SwapIds :
          SubmitsResolverSide(id) => swapObj[id].status = "user_locked"]_vars

----------------------------------------------------------------------------
(* SpecHtlc: the HTLCs of the dual-side flow, EthereumFusionEscrow on       *)
(* Ethereum and sui_escrow on Sui                                           *)

\* EthereumFusionEscrow (seconds) and sui_escrow (milliseconds)
MAX_LOCK_DURATION_SOL == 24 * 60 * 60
MAX_LOCK_DURATION == 86400000

Parties == {"user", "resolver", "other"}

\* lockFunds / lock_funds: on Ethereum the id must be unused; on Sui every
\* call makes a new object, here the object in slot h
lockFunds_ok(c, h, timelock) ==
    /\ ~htlcs[c][h].exists
    /\ timelock > LedgerTime(c)
    /\ timelock <= LedgerTime(c) + (IF c = "ethereum" THEN MAX_LOCK_DURATION_SOL
                                                      ELSE MAX_LOCK_DURATION)

lockFunds(c, h, sender, beneficiary, hashLock, timelock) ==
    /\ lockFunds_ok(c, h, timelock)
    /\ htlcs' = [htlcs EXCEPT
                   ![c][h] = [NoHTLC EXCEPT
                                !.exists = TRUE, !.sender = sender,
                                !.beneficiary = beneficiary,
                                !.hashLock = hashLock, !.timelock = timelock]]
    /\ UNCHANGED <<now, chainVars, relayerVars, pair, resolverVars, writers,
                   rowVersion, crashes, factoryVars, escrows, auxVars, safeMetadata,
                   feeSwap>>

\* a payment made by the contract
Release(to, via, at, secret) ==
    [to |-> to, via |-> via, at |-> at, secret |-> secret]

\* the requirements of claimFunds / claim_funds; claim_funds_AnyTime is
\* claim_funds without the assertion of E_EXPIRED
claim_funds_AnyTime(c, h, caller, secret) ==
    /\ htlcs[c][h].exists
    /\ caller = htlcs[c][h].beneficiary
    /\ ~htlcs[c][h].claimed /\ ~htlcs[c][h].refunded
    /\ Keccak256(secret) = htlcs[c][h].hashLock

claimFunds_ok(c, h, caller, secret) ==
    /\ htlcs[c][h].exists
    /\ caller = htlcs[c][h].beneficiary
    /\ ~htlcs[c][h].claimed /\ ~htlcs[c][h].refunded
    /\ LedgerTime(c) <= htlcs[c][h].timelock
    /\ Keccak256(secret) = htlcs[c][h].hashLock

claimHTLC(c, h, caller, secret) ==
    /\ claimFunds_ok(c, h, caller, secret)
    /\ htlcs' = [htlcs EXCEPT
                   ![c][h].claimed = TRUE,
                   ![c][h].released =
                       Append(@, Release(htlcs[c][h].beneficiary, "claimFunds",
                                         LedgerTime(c), secret))]
    /\ UNCHANGED <<now, chainVars, relayerVars, pair, resolverVars, writers,
                   rowVersion, crashes, factoryVars, escrows, auxVars, safeMetadata,
                   feeSwap>>

\* refundHTLC / refund_htlc
refundHTLC_ok(c, h, caller) ==
    /\ htlcs[c][h].exists
    /\ caller = htlcs[c][h].sender
    /\ ~htlcs[c][h].claimed /\ ~htlcs[c][h].refunded
    /\ LedgerTime(c) > htlcs[c][h].timelock

refundHTLC(c, h, caller) ==
    /\ refundHTLC_ok(c, h, caller)
    /\ htlcs' = [htlcs EXCEPT
                   ![c][h].refunded = TRUE,
                   ![c][h].released =
                       Append(@, Release(htlcs[c][h].sender, "refundHTLC",
                                         LedgerTime(c), "none"))]
    /\ UNCHANGED <<now, chainVars, relayerVars, pair, resolverVars, writers,
                   rowVersion, crashes, factoryVars, escrows, auxVars, safeMetadata,
                   feeSwap>>

\* isHTLCActive / is_htlc_active and canRefundHTLC / can_refund_htlc
isHTLCActive(c, h) ==
    /\ htlcs[c][h].exists
    /\ ~htlcs[c][h].claimed
    /\ ~htlcs[c][h].refunded
    /\ LedgerTime(c) <= htlcs[c][h].timelock

canRefundHTLC(c, h) ==
    /\ htlcs[c][h].exists
    /\ ~htlcs[c][h].claimed
    /\ ~htlcs[c][h].refunded
    /\ LedgerTime(c) > htlcs[c][h].timelock

\* timelocks asked for, in minutes from the call; hash locks used
HtlcTimelockChoices == {0, 15, 30, 24 * 60, 24 * 60 + 15}
HashLockChoices == {Keccak256("s1"), Sha256("s1")}

RunLockFunds ==
    \E c \in Chains, h \in HtlcIds, sender \in {"user", "resolver"},
       hl \in HashLockChoices, m \in HtlcTimelockChoices :
        lockFunds(c, h, sender, Beneficiary(IF sender = "user" THEN 0 ELSE 1),
                  hl, LedgerTime(c) + m * Minute(c))
RunClaimHTLC ==
    \E c \in Chains, h \in HtlcIds, who \in Parties, s \in {"s1", "s2"} :
        claimHTLC(c, h, who, s)
RunRefundHTLC ==
    \E c \in Chains, h \in HtlcIds, who \in Parties : refundHTLC(c, h, who)

InitHtlc ==
    /\ InitChain({"bob"}, {Absent}, {Absent}, {"alice"}, {Absent}, {Absent})
    /\ InitRelayer
    /\ InitPairIdle
    /\ InitResolverIdle
    /\ InitStoreIdle

NextHtlc == RunLockFunds \/ RunClaimHTLC \/ RunRefundHTLC \/ LongTick

SpecHtlc == InitHtlc /\ [][NextHtlc]_vars


----------------------------------------------------------------------------
(* Every HTLC pays at most once, to the right party, at the right time      *)

ClaimRelease(H, r) ==
    /\ r.via = "claimFunds"
    /\ r.to = H.beneficiary
    /\ Keccak256(r.secret) = H.hashLock
    /\ r.at <= H.timelock

RefundRelease(H, r) ==
    /\ r.via = "refundHTLC"
    /\ r.to = H.sender
    /\ r.at > H.timelock

HtlcReleasesRight(c, h) ==
    /\ Len(htlcs[c][h].released) <= 1
    /\ (htlcs[c][h].claimed \/ htlcs[c][h].refunded)
          <=> Len(htlcs[c][h].released) = 1
    /\ \A i \in 1..Len(htlcs[c][h].released) :
          \/ ClaimRelease(htlcs[c][h], htlcs[c][h].released[i])
          \/ RefundRelease(htlcs[c][h], htlcs[c][h].released[i])
    /\ ~(isHTLCActive(c, h) /\ canRefundHTLC(c, h))

\* a call changes an existing HTLC only by making its one payment
HtlcChangesOnlyByRelease(c, h) ==
    (htlcs[c][h].exists /\ htlcs'[c][h] # htlcs[c][h]) =>
        /\ Len(htlcs[c][h].released) = 0
        /\ Len(htlcs'[c][h].released) = 1
        /\ htlcs'[c][h].sender = htlcs[c][h].sender
        /\ htlcs'[c][h].beneficiary = htlcs[c][h].beneficiary
        /\ htlcs'[c][h].hashLock = htlcs[c][h].hashLock
        /\ htlcs'[c][h].timelock = htlcs[c][h].timelock

----------------------------------------------------------------------------
(* SpecRecord: the registry entry of a safe in SafeRecord.sol and           *)
(* safe_record.move                                                         *)

\* the deployer of SafeRecord.sol, who is its `owner`
RegistryAdmin == "admin"
SafeOwners == {"alice", "bob", "carol"}
RecordCallers == SafeOwners \cup {RegistryAdmin, "mallory"}

\* _createSafeWithHash / create_and_register_safe: the entry of the new safe
RegisterSafe(c, owner) ==
    /\ ~safeMetadata[c].exists
    /\ safeMetadata' = [safeMetadata EXCEPT
                          ![c] = [NoSafeMetadata EXCEPT
                                    !.exists = TRUE, !.owner = owner,
                                    !.isActive = TRUE]]
    /\ UNCHANGED <<now, chainVars, relayerVars, pair, resolverVars, writers,
                   rowVersion, crashes, factoryVars, escrows, auxVars, htlcs, feeSwap>>

\* SafeRecord.deactivateSafe
deactivateSafe_ok(caller) ==
    /\ safeMetadata["ethereum"].owner = caller \/ caller = RegistryAdmin
    /\ safeMetadata["ethereum"].isActive

\* safe_record::deactivate_safe: the entry must exist; the sender is not
\* looked at
deactivate_safe_ok(caller) == safeMetadata["sui"].exists

DeactivateOk(c, caller) ==
    IF c = "ethereum" THEN deactivateSafe_ok(caller)
                      ELSE deactivate_safe_ok(caller)

deactivateSafe(c, caller) ==
    /\ DeactivateOk(c, caller)
    /\ safeMetadata' = [safeMetadata EXCEPT
                          ![c].isActive = FALSE,
                          ![c].deactivatedBy =
                              IF safeMetadata[c].isActive THEN caller ELSE @]
    /\ UNCHANGED <<now, chainVars, relayerVars, pair, resolverVars, writers,
                   rowVersion, crashes, factoryVars, escrows, auxVars, htlcs, feeSwap>>

RunRegisterSafe == \E c \in Chains, o \in SafeOwners : RegisterSafe(c, o)
RunDeactivateSafe ==
    \E c \in Chains, who \in RecordCallers : deactivateSafe(c, who)

InitRecord ==
    /\ InitChain({"bob"}, {Absent}, {Absent}, {"alice"}, {Absent}, {Absent})
    /\ InitRelayer
    /\ InitPairIdle
    /\ InitResolverIdle
    /\ InitStoreIdle

NextRecord == RunRegisterSafe \/ RunDeactivateSafe

SpecRecord == InitRecord /\ [][NextRecord]_vars

\* C28: a safe's registry entry is deactivated only by the safe's owner or by
\* the registry administrator, on both ledgers; a call from anybody else
\* leaves the entry active.
C28_DeactivatedByOwnerOrAdmin ==
    \A c \in Chains :
        (safeMetadata[c].exists /\ ~safeMetadata[c].isActive) =>
            safeMetadata[c].deactivatedBy \in
                {safeMetadata[c].owner, RegistryAdmin}

\* entries were deactivated on both ledgers
C28_EntriesDeactivated ==
    \A c \in Chains : safeMetadata[c].exists /\ ~safeMetadata[c].isActive


----------------------------------------------------------------------------
(* SpecFee: the fee of ETHWSUISwap.withdraw                                 *)

MAX_FEE == 1000
BasisPoints == 10000

\* fees the owner asks for and amounts that are swapped
SwapFeeChoices == {0, 1, 30, 999, 1000, 1001, 10000}
AmountChoices == {1, 3, 333, 334, 9999, 10000, 10001, 1000000}

\* a fee that is rounded up instead of down
Fee_RoundedUp(amount, swapFee) ==
    (amount * swapFee + BasisPoints - 1) \div BasisPoints

\* uint256 fee = (swap.ethAmount * swapFee) / 10000
Fee(amount, swapFee) == (amount * swapFee) \div BasisPoints

\* setSwapFee, by the owner
setSwapFee(_swapFee) ==
    /\ _swapFee <= MAX_FEE
    /\ feeSwap' = [feeSwap EXCEPT !.swapFee = _swapFee]
    /\ UNCHANGED <<now, chainVars, relayerVars, pair, resolverVars, writers,
                   rowVersion, crashes, factoryVars, escrows, auxVars, htlcs,
                   safeMetadata>>

\* initiateETHToWSUI / initiateWSUIToETH: the amount that is locked
initiateSwap(amount) ==
    /\ amount > 0
    /\ ~feeSwap.exists
    /\ feeSwap' = [feeSwap EXCEPT !.exists = TRUE, !.amount = amount]
    /\ UNCHANGED <<now, chainVars, relayerVars, pair, resolverVars, writers,
                   rowVersion, crashes, factoryVars, escrows, auxVars, htlcs,
                   safeMetadata>>

\* withdraw by the participant with the secret, before the timelock
withdrawSwap ==
    /\ feeSwap.exists
    /\ ~feeSwap.withdrawn
    /\ feeSwap' = [feeSwap EXCEPT
                     !.withdrawn = TRUE,
                     !.feeBps = feeSwap.swapFee,
                     !.fee = Fee(feeSwap.amount, feeSwap.swapFee),
                     !.netAmount = feeSwap.amount
                                     - Fee(feeSwap.amount, feeSwap.swapFee)]
    /\ UNCHANGED <<now, chainVars, relayerVars, pair, resolverVars, writers,
                   rowVersion, crashes, factoryVars, escrows, auxVars, htlcs,
                   safeMetadata>>

RunSetSwapFee == \E f \in SwapFeeChoices : setSwapFee(f)
RunInitiateSwap == \E a \in AmountChoices : initiateSwap(a)

InitFee ==
    /\ InitChain({"bob"}, {Absent}, {Absent}, {"alice"}, {Absent}, {Absent})
    /\ InitRelayer
    /\ InitPairIdle
    /\ InitResolverIdle
    /\ InitStoreIdle

NextFee == RunSetSwapFee \/ RunInitiateSwap \/ withdrawSwap

SpecFee == InitFee /\ [][NextFee]_vars

\* C29 as the code has it: the fee is floor(amount * fee_bps / 10000) with
\* fee_bps in 0..MAX_FEE, the payout is amount - fee, and so net + fee =
\* amount exactly.
C29_FeeRoundedDown ==
    feeSwap.withdrawn =>
        /\ feeSwap.feeBps \in 0..MAX_FEE
        /\ feeSwap.fee * BasisPoints <= feeSwap.amount * feeSwap.feeBps
        /\ feeSwap.amount * feeSwap.feeBps < (feeSwap.fee + 1) * BasisPoints
        /\ feeSwap.netAmount = feeSwap.amount - feeSwap.fee
        /\ feeSwap.netAmount + feeSwap.fee = feeSwap.amount

\* C29 as stated: for every withdrawal amount and every fee_bps the payout is
\* net = floor(amount * (10000 - fee_bps) / 10000) and the fee is
\* amount - net, so net + fee = amount exactly.
C29_NetRoundedDown ==
    feeSwap.withdrawn =>
        /\ feeSwap.netAmount
             = (feeSwap.amount * (BasisPoints - feeSwap.feeBps)) \div BasisPoints
        /\ feeSwap.fee = feeSwap.amount - feeSwap.netAmount
        /\ feeSwap.netAmount + feeSwap.fee = feeSwap.amount

\* a withdrawal whose fee is not a whole number of units before rounding
C29_FractionalFee ==
    /\ feeSwap.withdrawn
    /\ (feeSwap.amount * feeSwap.feeBps) % BasisPoints # 0


----------------------------------------------------------------------------
(* SpecRelayRestart: the relayer from its constructor on, started and       *)
(* stopped any number of times                                              *)

\* how many times start() is followed
MaxStarts == 2

\* start(): a relayer that is running returns at once; otherwise the flag is
\* set and one more callback is subscribed on each chain
Start ==
    /\ ~isRunning
    /\ ethListeners < MaxStarts
    /\ isRunning' = TRUE
    /\ ethListeners' = ethListeners + 1
    /\ suiListeners' = suiListeners + 1
    /\ UNCHANGED <<now, chainVars, inbox, tasks, observed, submitted>>
    /\ UNCHANGED appVars

InitRelayRestart ==
    /\ InitChain({"bob"}, {"sha256"}, {Absent}, {"alice"},
                 {"module_sha256"}, {Absent})
    /\ InitRelayer
    /\ InitPairIdle
    /\ InitStoreIdle
    /\ InitResolverIdle

NextRelayRestart ==
    \/ Start
    \/ Stop
    \/ PartyEthWithdraw
    \/ PartyEthRefund
    \/ PartySuiWithdraw
    \/ PartySuiRefund
    \/ Tick
    \/ Deliver
    \/ RunFind
    \/ RunWithdraw
    \/ RunDelay

SpecRelayRestart == InitRelayRestart /\ [][NextRelayRestart]_vars

\* the callbacks that begin reveal propagation in this step
Triggered == BagCardinality(tasks') - BagCardinality(tasks)

\* C30: isRunning is false from construction until start() and true after it;
\* after any sequence of start() and stop(), one observed withdrawal event
\* triggers reveal propagation at most once when the relayer is running and
\* not at all when it is stopped.
C30_OneTriggerPerEvent ==
    [][/\ (isRunning' /\ ~isRunning) => ethListeners' = ethListeners + 1
       /\ (inbox # <<>> /\ inbox' = Tail(inbox)) =>
              Triggered <= (IF isRunning THEN 1 ELSE 0)]_vars

\* the relayer was started, stopped and started again, and an event waits
C30_EventAfterRestart ==
    /\ isRunning
    /\ ethListeners = 2
    /\ inbox # <<>>


----------------------------------------------------------------------------
(* The path from BOTH_LOCKED to COMPLETED                                   *)

\* no swap is ever COMPLETED, in memory, in a write under way or in the store:
\* the branches of handleBothLockedSwap and handleUserClaimedSwap that write
\* the status depend on checkUserClaimed / checkResolverClaimed
NoSwapCompleted ==
    /\ \A id \in SwapIds : swapObj[id].status # "completed" /\ db[id] # "completed"
    /\ \A t \in BagToSet(ticks) : t.write # "completed"


----------------------------------------------------------------------------
(* SpecRetry: one call of _withdrawFromEthereumSafeWithRetry or             *)
(* _withdrawFromSuiSafeWithRetry, for every configured number of attempts   *)

\* the largest RELAYER_RETRY_ATTEMPTS that is followed
MaxRetryAttempts == 8

\* parseInt(process.env.RELAYER_RETRY_ATTEMPTS) || 3 ; -1 stands for a
\* variable that is not set or not a number
ConfiguredAttempts(env) == IF env = -1 \/ env = 0 THEN retryAttempts ELSE env

\* the relayer is constructed and the loop is entered for a safe on `chain`
RetryEnter(chain) ==
    /\ retry.pc = "idle"
    /\ retry' = [retry EXCEPT
                   !.chain = chain, !.attempt = 1,
                   !.pc = IF 1 <= retry.retryAttempts THEN "withdraw" ELSE "done"]
    /\ UNCHANGED <<now, chainVars, relayerVars, pair, resolverVars, writers,
                   rowVersion, crashes, factoryVars, escrows, htlcs,
                   safeMetadata, feeSwap, timeouts, factorySwaps>>

\* the wait before the next attempt
DelayLinear(attempt) == retryDelay * attempt

\* await withdrawFromSafe: it returns, or it throws and the catch block waits
\* or gives up
RetrySubmit(ok) ==
    /\ retry.pc = "withdraw"
    /\ retry' =
         IF ok
           THEN [retry EXCEPT !.submissions = @ + 1, !.pc = "done"]
           ELSE IF retry.attempt < retry.retryAttempts
                  THEN [retry EXCEPT
                          !.submissions = @ + 1,
                          !.pc = "delay",
                          !.waits = Append(@, DelayLinear(retry.attempt))]
                  ELSE [retry EXCEPT !.submissions = @ + 1, !.pc = "done"]
    /\ UNCHANGED <<now, chainVars, relayerVars, pair, resolverVars, writers,
                   rowVersion, crashes, factoryVars, escrows, htlcs,
                   safeMetadata, feeSwap, timeouts, factorySwaps>>

\* the timer of _delay fires and the loop goes round
RetryWake ==
    /\ retry.pc = "delay"
    /\ retry' = [retry EXCEPT !.attempt = @ + 1, !.pc = "withdraw"]
    /\ UNCHANGED <<now, chainVars, relayerVars, pair, resolverVars, writers,
                   rowVersion, crashes, factoryVars, escrows, htlcs,
                   safeMetadata, feeSwap, timeouts, factorySwaps>>

InitRetry ==
    /\ InitChain({"bob"}, {Absent}, {Absent}, {"alice"}, {Absent}, {Absent})
    /\ InitRelayer
    /\ InitPairIdle
    /\ InitResolverIdle
    /\ writers = [w \in Writers |-> NoWrite]
    /\ rowVersion = [id \in SwapIds |-> 0]
    /\ crashes = 0
    /\ authorizedResolvers = {}
    /\ resolverStakes = [a \in Stakers |-> 0]
    /\ resolvers = <<>>
    /\ resolver_stakes = <<>>
    /\ escrows = [c \in Chains |-> NoDualEscrow]
    /\ htlcs = [c \in Chains |-> [h \in HtlcIds |-> NoHTLC]]
    /\ safeMetadata = [c \in Chains |-> NoSafeMetadata]
    /\ feeSwap = NewFeeSwap
    /\ timeouts = NoTimeouts
    /\ factorySwaps = NoFactorySwaps
    /\ \E env \in -1..MaxRetryAttempts :
          retry = [NoRetry EXCEPT !.retryAttempts = ConfiguredAttempts(env)]

NextRetry ==
    \/ \E c \in Chains : RetryEnter(c)
    \/ \E ok \in BOOLEAN : RetrySubmit(ok)
    \/ RetryWake

SpecRetry == InitRetry /\ [][NextRetry]_vars

\* base * 2^(k-1)
RECURSIVE Pow2(_)
Pow2(n) == IF n = 0 THEN 1 ELSE 2 * Pow2(n - 1)
ExponentialWait(k) == retryDelay * Pow2(k - 1)

\* values of max_backoff that are tried, in milliseconds
BackoffCaps == {1000 * i : i \in 1..700}

\* w lies within 25% of the exponential wait capped at cap
WithinJitter(w, k, cap) ==
    /\ 4 * w >= 3 * Min(ExponentialWait(k), cap)
    /\ 4 * w <= 5 * Min(ExponentialWait(k), cap)

\* C32: retries of a submit are bounded and exponentially spaced -- at most
\* max_attempts submissions are made, and the wait before the k-th retry is
\* base * 2^(k-1), within 25% jitter and capped at max_backoff (for some
\* value of max_backoff).
C32_BoundedExponentialRetries ==
    /\ retry.submissions <= retry.retryAttempts
    /\ \E cap \in BackoffCaps :
          \A k \in 1..Len(retry.waits) : WithinJitter(retry.waits[k], k, cap)

\* a loop configured for eight attempts waits for the seventh time
C32_SeventhWait == Len(retry.waits) = 7


----------------------------------------------------------------------------
(* Escrows that share a digest                                              *)

\* the escrows of both ledgers that carry digest h
EscrowsWithDigest(h) ==
    {<<"ethereum", e>> : e \in {x \in EthIds : ethSafe[x].exists
                                               /\ ethSafe[x].secretHash = h}}
      \cup {<<"sui", u>> : u \in {x \in SuiIds : suiSafe[x].exists
                                                 /\ suiSafe[x].secret_hash = h}}

\* exactly one escrow on each ledger
ValidPair(S) ==
    /\ Cardinality(S) = 2
    /\ \E a \in S, b \in S : a[1] = "ethereum" /\ b[1] = "sui"

\* the escrows whose digest is shared by a set that is no valid pair
AmbiguousEscrows ==
    UNION {IF Cardinality(EscrowsWithDigest(h)) >= 2
              /\ ~ValidPair(EscrowsWithDigest(h))
             THEN EscrowsWithDigest(h) ELSE {} : h \in Digests}

\* C33: when a third escrow, or a second escrow on the same ledger, shares a
\* digest, the coordinator submits no automated withdraw for the escrows of
\* that digest.
C33_NoSubmitForAmbiguousEscrows ==
    \A x \in AmbiguousEscrows, s \in Secrets : <<x[1], x[2], s>> \notin submitted

\* two Ethereum safes and a Sui safe share a digest and one of them has been
\* withdrawn by its beneficiary while the relayer runs
C33_ThirdEscrowSharesDigest ==
    /\ Cardinality(AmbiguousEscrows) = 3
    /\ isRunning
    /\ observed # {}


----------------------------------------------------------------------------
(* createCrossChainSafe that throws                                         *)

NoSafeOnEitherLedger ==
    /\ \A e \in EthIds : ~ethSafe[e].exists
    /\ \A u \in SuiIds : ~suiSafe[u].exists

\* C34: createCrossChainSafe is all-or-nothing -- whenever it throws, no
\* escrow has been created and no funds have been locked on either ledger.
C34_ThrowLeavesNoEscrow ==
    pair.phase \in {"rejected", "failed"} => NoSafeOnEitherLedger

\* the call threw while it created the destination safe
C34_DestinationFailed == pair.phase = "failed"


----------------------------------------------------------------------------
(* The create_swap_escrow call of the resolver                              *)

\* the swaps whose Sui transaction of createSuiEscrowAndLock is under way
CreateSubmittedFor ==
    {t.id : t \in {x \in BagToSet(ticks) : x.pc = "sendTransaction"}}

\* the swap was recorded from an escrow with a valid timelock relationship
RecordedFromValidEscrow(id) ==
    /\ swapEscrow[id].exists
    /\ swapObj[id].userTimelock = swapEscrow[id].userTimelock
    /\ swapObj[id].resolverTimelock = swapEscrow[id].resolverTimelock
    /\ swapEscrow[id].resolverTimelock + MIN_TIMELOCK_BUFFER_SOL
         <= swapEscrow[id].userTimelock

----------------------------------------------------------------------------
(* Expiry of a PENDING swap                                                 *)

\* the resolver marks swap id EXPIRED in this step
MarkedExpired(id) ==
    /\ swapObj[id].status = "pending"
    /\ swapObj'[id].status = "expired"

\* C36: a PENDING swap is marked EXPIRED only when the current time, in the
\* unit of the recorded user timelock (the on-chain timestamp, in seconds), is
\* strictly greater than that timelock; a swap whose on-chain user deadline
\* lies in the future is never marked EXPIRED.
C36_ExpiredOnlyPastTimelock ==
    [][\A id \in SwapIds :
          MarkedExpired(id) => EthTime > swapObj[id].userTimelock]_vars

\* a PENDING swap is monitored while its on-chain deadline lies in the future
C36_PendingBeforeDeadline ==
    \E id \in SwapIds :
        /\ running
        /\ id \in monitoringIntervals
        /\ id \in activeSwaps
        /\ swapObj[id].status = "pending"
        /\ swapObj[id].userTimelock = swapEscrow[id].userTimelock
        /\ EthTime < swapObj[id].userTimelock



----------------------------------------------------------------------------
(* Funds of a side that is still owed to somebody                           *)

\* the funds of the side are in the escrow: locked, not claimed, not refunded
SideHeld(c, side) ==
    /\ SideOf(escrows[c], side).locked
    /\ ~SideOf(escrows[c], side).claimed
    /\ ~SideOf(escrows[c], side).refunded

\* C37: the funds of a locked, unclaimed and unrefunded side are never sent
\* elsewhere or left unrecoverable -- an escrow is never destroyed while one
\* of its sides still holds its funds (destruction sends the balance to the
\* factory on Ethereum and bars refund_funds on Sui).
C37_HeldFundsStayRecoverable ==
    \A c \in Chains, side \in {0, 1} : SideHeld(c, side) => ~escrows[c].isDestroyed

\* a side still holds its funds an hour after both timelocks of its escrow
C37_HeldPastCleanupDelay ==
    \E c \in Chains, side \in {0, 1} :
        /\ SideHeld(c, side)
        /\ LedgerTime(c) > escrows[c].user_timelock
                             + (IF c = "ethereum" THEN CLEANUP_DELAY_SOL
                                                  ELSE CLEANUP_DELAY)
        /\ LedgerTime(c) > escrows[c].resolver_timelock
                             + (IF c = "ethereum" THEN CLEANUP_DELAY_SOL
                                                  ELSE CLEANUP_DELAY)



----------------------------------------------------------------------------
(* SpecTimeouts: the timeouts a TimeoutManager proposes and its own check   *)

\* names handed to the constructor; an unknown name gets the testnet profile
NetworkNames == {"mainnet", "testnet", "devnet", "other"}

\* estimated execution times that are asked for, in steps of ten seconds
MaxEstimate == 60
EstimateChoices == {10000 * i : i \in 0..MaxEstimate}

\* TimeoutManager.calculateOptimalTimeouts
calculateOptimalTimeouts(cfg, estimatedExecutionTime) ==
    LET baseDestTimeout ==
            Max(cfg.destTimeout, estimatedExecutionTime + cfg.safetyMargin)
        baseSourceTimeout == baseDestTimeout + cfg.safetyMargin
    IN  [sourceTimeout |-> Max(baseSourceTimeout, cfg.minTimeout),
         destTimeout |-> Max(baseDestTimeout, cfg.minTimeout),
         safetyMargin |-> cfg.safetyMargin]

\* a caller asks the manager for the timeouts of a swap
CalculateOptimalTimeouts(estimatedExecutionTime) ==
    /\ timeouts.pc # "calculated"
    /\ LET r == calculateOptimalTimeouts(Config(timeouts.network),
                                         estimatedExecutionTime)
       IN  timeouts' = [timeouts EXCEPT
                          !.pc = "calculated",
                          !.estimatedExecutionTime = estimatedExecutionTime,
                          !.sourceTimeout = r.sourceTimeout,
                          !.destTimeout = r.destTimeout]
    /\ UNCHANGED <<now, chainVars, relayerVars, pair, resolverVars, writers,
                   rowVersion, crashes, factoryVars, escrows, htlcs,
                   safeMetadata, feeSwap, retry, factorySwaps>>

\* the caller hands the pair to validateTimeouts of the same manager
ValidateCalculated ==
    /\ timeouts.pc = "calculated"
    /\ timeouts' = [timeouts EXCEPT
                      !.pc = IF validateTimeouts(Config(timeouts.network),
                                                 timeouts.sourceTimeout,
                                                 timeouts.destTimeout)
                               THEN "returned" ELSE "threw"]
    /\ UNCHANGED <<now, chainVars, relayerVars, pair, resolverVars, writers,
                   rowVersion, crashes, factoryVars, escrows, htlcs,
                   safeMetadata, feeSwap, retry, factorySwaps>>

RunCalculateOptimalTimeouts ==
    \E e \in EstimateChoices : CalculateOptimalTimeouts(e)

InitTimeouts ==
    /\ InitChain({"bob"}, {Absent}, {Absent}, {"alice"}, {Absent}, {Absent})
    /\ InitRelayer
    /\ InitPairIdle
    /\ InitResolverIdle
    /\ writers = [w \in Writers |-> NoWrite]
    /\ rowVersion = [id \in SwapIds |-> 0]
    /\ crashes = 0
    /\ authorizedResolvers = {}
    /\ resolverStakes = [a \in Stakers |-> 0]
    /\ resolvers = <<>>
    /\ resolver_stakes = <<>>
    /\ escrows = [c \in Chains |-> NoDualEscrow]
    /\ htlcs = [c \in Chains |-> [h \in HtlcIds |-> NoHTLC]]
    /\ safeMetadata = [c \in Chains |-> NoSafeMetadata]
    /\ feeSwap = NewFeeSwap
    /\ retry = NoRetry
    /\ factorySwaps = NoFactorySwaps
    /\ \E n \in NetworkNames : timeouts = [NoTimeouts EXCEPT !.network = n]

NextTimeouts == RunCalculateOptimalTimeouts \/ ValidateCalculated

SpecTimeouts == InitTimeouts /\ [][NextTimeouts]_vars

\* C38: for every network profile and every estimatedExecutionTime >= 0 the
\* pair returned by calculateOptimalTimeouts is accepted by validateTimeouts
\* of the same TimeoutManager: the validation of a calculated pair never
\* throws.
C38_OptimalTimeoutsAreValid == timeouts.pc # "threw"

\* a calculated pair has been handed to validateTimeouts
C38_CalculatedPairValidated ==
    /\ timeouts.pc \in {"returned", "threw"}
    /\ timeouts.estimatedExecutionTime > 0



----------------------------------------------------------------------------
(* Timers of the swaps the resolver tracks                                  *)

----------------------------------------------------------------------------
(* SpecFactory: the swaps SwapEscrowFactory tracks                          *)

\* enum SwapStatus of SwapEscrowFactory
SwapStatusSol ==
    {"CREATED", "USER_LOCKED", "RESOLVER_LOCKED", "BOTH_LOCKED", "COMPLETED",
     "REFUNDED", "EXPIRED"}
\* the statuses at which updateSwapStatus takes a swap off activeSwaps
Finished == {"COMPLETED", "REFUNDED", "EXPIRED"}

\* activeSwaps.pop()
Pop(s) == SubSeq(s, 1, Len(s) - 1)

\* _removeFromActiveSwaps on the factory state f; positions count from 0 as
\* in Solidity. activeSwaps.length - 1 on an empty array and an index past
\* the end are panics, reported in lastCall with f otherwise as it was.
removeFromActiveSwaps(f, swapId) ==
    LET index == f.swapIndex[swapId]
        lastIndex == Len(f.activeSwaps) - 1
        lastSwapId == f.activeSwaps[lastIndex + 1]
    IN  IF Len(f.activeSwaps) = 0 \/ index > lastIndex
          THEN [f EXCEPT !.lastCall = "panic"]
          ELSE IF index # lastIndex
                 THEN [f EXCEPT
                         !.activeSwaps =
                             Pop([f.activeSwaps EXCEPT ![index + 1] = lastSwapId]),
                         !.swapIndex =
                             [[f.swapIndex EXCEPT ![lastSwapId] = index]
                                 EXCEPT ![swapId] = 0]]
                 ELSE [f EXCEPT !.activeSwaps = Pop(f.activeSwaps),
                                !.swapIndex[swapId] = 0]

\* delete swapEscrows[swapId]; delete swapInfo[swapId]
Forget(f, swapId) ==
    [f EXCEPT !.swapEscrows[swapId] = FALSE, !.status[swapId] = "CREATED"]

\* a reverted call changes nothing; lastCall keeps its panic
Commit(f) ==
    IF f.lastCall = "panic"
      THEN factorySwaps' = [factorySwaps EXCEPT !.lastCall = "panic"]
      ELSE factorySwaps' = [f EXCEPT !.lastCall = "ok"]

FactoryUnchanged ==
    UNCHANGED <<now, chainVars, relayerVars, pair, resolverVars, writers,
                rowVersion, crashes, factoryVars, escrows, htlcs,
                safeMetadata, feeSwap, retry, timeouts>>

\* createSwapEscrow with a resolver and timelocks that pass its checks
FactoryCreateSwapEscrow(swapId) ==
    /\ ~factorySwaps.swapEscrows[swapId]
    /\ Commit([factorySwaps EXCEPT
                 !.swapEscrows[swapId] = TRUE,
                 !.status[swapId] = "CREATED",
                 !.isDestroyed[swapId] = FALSE,
                 !.pastCleanupDelay[swapId] = FALSE,
                 !.swapIndex[swapId] = Len(factorySwaps.activeSwaps),
                 !.activeSwaps = Append(@, swapId)])
    /\ FactoryUnchanged

\* updateSwapStatus, by the owner
updateSwapStatusSol(swapId, newStatus) ==
    /\ factorySwaps.swapEscrows[swapId]
    /\ LET f == [factorySwaps EXCEPT !.status[swapId] = newStatus]
       IN  Commit(IF newStatus \in Finished
                    THEN removeFromActiveSwaps(f, swapId)
                    ELSE f)
    /\ FactoryUnchanged

\* one round of the loop of cleanupEscrows; forceDestroy called by the
\* factory succeeds unless the escrow is destroyed already
cleanupOne(f, swapId) ==
    LET canDestroy == \/ f.status[swapId] \in Finished
                      \/ f.pastCleanupDelay[swapId]
    IN  IF f.swapEscrows[swapId] /\ canDestroy /\ ~f.isDestroyed[swapId]
          THEN LET g == Forget([f EXCEPT !.isDestroyed[swapId] = TRUE], swapId)
               IN  IF f.status[swapId] \notin Finished
                     THEN removeFromActiveSwaps(g, swapId)
                     ELSE g
          ELSE f

RECURSIVE cleanupLoop(_, _)
cleanupLoop(f, swapIds) ==
    IF swapIds = <<>> \/ f.lastCall = "panic"
      THEN f
      ELSE cleanupLoop(cleanupOne(f, Head(swapIds)), Tail(swapIds))

\* cleanupEscrows, by anybody
cleanupEscrows(swapIds) ==
    /\ Commit(cleanupLoop([factorySwaps EXCEPT !.lastCall = "ok"], swapIds))
    /\ FactoryUnchanged

\* emergencyCleanup, by the owner: both the try and the catch branch delete
\* the tracking and call _removeFromActiveSwaps
emergencyCleanup(swapId) ==
    /\ factorySwaps.swapEscrows[swapId]
    /\ Commit(removeFromActiveSwaps(
                 Forget([factorySwaps EXCEPT !.isDestroyed[swapId] = TRUE],
                        swapId),
                 swapId))
    /\ FactoryUnchanged

\* the escrow destroys itself: _checkAndDestroy after a claim or refund, or
\* forceDestroy by anybody an hour after both timelocks
EscrowDestroysItself(swapId) ==
    /\ factorySwaps.swapEscrows[swapId]
    /\ ~factorySwaps.isDestroyed[swapId]
    /\ factorySwaps' = [factorySwaps EXCEPT !.isDestroyed[swapId] = TRUE]
    /\ FactoryUnchanged

\* block.timestamp passes userTimelock + CLEANUP_DELAY of the swap
CleanupDelayPasses(swapId) ==
    /\ factorySwaps.swapEscrows[swapId]
    /\ ~factorySwaps.pastCleanupDelay[swapId]
    /\ factorySwaps' = [factorySwaps EXCEPT !.pastCleanupDelay[swapId] = TRUE]
    /\ FactoryUnchanged

\* arrays handed to cleanupEscrows
MaxCleanupBatch == 2
CleanupBatches ==
    UNION {[1..n -> FactorySwapIds] : n \in 1..MaxCleanupBatch}

InitFactory ==
    /\ InitChain({"bob"}, {Absent}, {Absent}, {"alice"}, {Absent}, {Absent})
    /\ InitRelayer
    /\ InitPairIdle
    /\ InitResolverIdle
    /\ InitStoreIdle

NextFactory ==
    \/ \E id \in FactorySwapIds : FactoryCreateSwapEscrow(id)
    \/ \E id \in FactorySwapIds, s \in SwapStatusSol : updateSwapStatusSol(id, s)
    \/ \E ids \in CleanupBatches : cleanupEscrows(ids)
    \/ \E id \in FactorySwapIds : emergencyCleanup(id)
    \/ \E id \in FactorySwapIds : EscrowDestroysItself(id)
    \/ \E id \in FactorySwapIds : CleanupDelayPasses(id)

SpecFactory == InitFactory /\ [][NextFactory]_vars

\* the existing swaps whose status is not COMPLETED, REFUNDED or EXPIRED
OpenSwaps ==
    {id \in FactorySwapIds :
        factorySwaps.swapEscrows[id] /\ factorySwaps.status[id] \notin Finished}

\* C40: activeSwaps contains exactly the existing swaps whose status is not
\* COMPLETED, REFUNDED or EXPIRED, each exactly once, swapIndex[id] is the
\* position of id in activeSwaps, and no call reverts on an empty list.
C40_ActiveSwapsExact ==
    /\ {factorySwaps.activeSwaps[i] : i \in 1..Len(factorySwaps.activeSwaps)}
         = OpenSwaps
    /\ Len(factorySwaps.activeSwaps) = Cardinality(OpenSwaps)
    /\ \A i \in 1..Len(factorySwaps.activeSwaps) :
          factorySwaps.swapIndex[factorySwaps.activeSwaps[i]] = i - 1
    /\ factorySwaps.lastCall # "panic"

\* one swap has been taken off the list while another one is still open
C40_OneFinishedOneOpen ==
    /\ OpenSwaps # {}
    /\ \E id \in FactorySwapIds :
          factorySwaps.swapEscrows[id] /\ factorySwaps.status[id] \in Finished

====
